---- MODULE Spec2Model ----
(***************************************************************************)
(* Safety Hazard Mapper: the hazard/region synchronizer of analyzeImage,   *)
(* the layout engine, region renderer and heatmap of ImageDisplay, the     *)
(* mask generator createMaskFromRegion and the event handlers of App.      *)
(***************************************************************************)
EXTENDS Integers, Sequences, FiniteSets, TLC

(***************************************************************************)
(* JavaScript numbers.  Every number of the program is an IEEE-754         *)
(* binary64 value; the model keeps each finite value exactly, as           *)
(* (-1)^neg * m * 2^e with m a natural number held in limbs (least         *)
(* significant first, no leading zero limb), odd unless the value is 0.    *)
(* An arithmetic operator of the program is the exact operation followed   *)
(* by rounding to Precision significant bits, ties to even.                *)
(***************************************************************************)
LimbBits == 12
Precision == 53

RECURSIVE Pow2(_)
Pow2(n) == IF n = 0 THEN 1 ELSE 2 * Pow2(n - 1)

Base == Pow2(LimbBits)

RECURSIVE Trim(_)
Trim(a) ==
  IF a = <<>> THEN a
  ELSE IF a[Len(a)] = 0 THEN Trim(SubSeq(a, 1, Len(a) - 1)) ELSE a

BigOfInt(n) ==
  Trim(<<n % Base, (n \div Base) % Base, n \div (Base * Base)>>)

\* The value of a natural of at most two limbs.
SmallVal(a) ==
  IF a = <<>> THEN 0
  ELSE IF Len(a) = 1 THEN a[1] ELSE a[1] + Base * a[2]

RECURSIVE BigMulSmall(_, _, _)
BigMulSmall(a, k, c) ==
  IF a = <<>>
  THEN IF c = 0 THEN <<>> ELSE <<c % Base>> \o BigMulSmall(<<>>, k, c \div Base)
  ELSE LET t == a[1] * k + c
       IN  <<t % Base>> \o BigMulSmall(Tail(a), k, t \div Base)

\* Quotient and remainder of (r * Base^Len(a) + a) by k, for r < k.
RECURSIVE BigDivSmall(_, _, _)
BigDivSmall(a, k, r) ==
  IF a = <<>> THEN [q |-> <<>>, r |-> r]
  ELSE LET n    == Len(a)
           t    == r * Base + a[n]
           rest == BigDivSmall(SubSeq(a, 1, n - 1), k, t % k)
       IN  [q |-> Append(rest.q, t \div k), r |-> rest.r]

RECURSIVE BigAddC(_, _, _)
BigAddC(a, b, c) ==
  IF a = <<>> /\ b = <<>> THEN (IF c = 0 THEN <<>> ELSE <<c>>)
  ELSE LET x == IF a = <<>> THEN 0 ELSE a[1]
           y == IF b = <<>> THEN 0 ELSE b[1]
           t == x + y + c
       IN  <<t % Base>> \o
           BigAddC(IF a = <<>> THEN a ELSE Tail(a),
                   IF b = <<>> THEN b ELSE Tail(b), t \div Base)

BigAdd(a, b) == BigAddC(a, b, 0)

\* a - b - c for a >= b + c.
RECURSIVE BigSubC(_, _, _)
BigSubC(a, b, c) ==
  IF a = <<>> THEN <<>>
  ELSE LET y == IF b = <<>> THEN 0 ELSE b[1]
           t == a[1] - y - c
       IN  <<IF t < 0 THEN t + Base ELSE t>> \o
           BigSubC(Tail(a), IF b = <<>> THEN b ELSE Tail(b),
                   IF t < 0 THEN 1 ELSE 0)

BigSub(a, b) == Trim(BigSubC(a, b, 0))

\* -1, 0, 1 as a < b, a = b, a > b.
RECURSIVE BigCmp(_, _)
BigCmp(a, b) ==
  IF Len(a) # Len(b) THEN (IF Len(a) < Len(b) THEN -1 ELSE 1)
  ELSE IF a = <<>> THEN 0
  ELSE LET n == Len(a)
       IN  IF a[n] # b[n] THEN (IF a[n] < b[n] THEN -1 ELSE 1)
           ELSE BigCmp(SubSeq(a, 1, n - 1), SubSeq(b, 1, n - 1))

RECURSIVE BigMul(_, _)
BigMul(a, b) ==
  IF a = <<>> \/ b = <<>> THEN <<>>
  ELSE BigAdd(BigMulSmall(a, b[1], 0),
              LET hi == BigMul(a, Tail(b))
              IN  IF hi = <<>> THEN hi ELSE <<0>> \o hi)

RECURSIVE IntBitLen(_)
IntBitLen(n) == IF n = 0 THEN 0 ELSE 1 + IntBitLen(n \div 2)

BitLen(a) ==
  IF a = <<>> THEN 0 ELSE (Len(a) - 1) * LimbBits + IntBitLen(a[Len(a)])

RECURSIVE Zeros(_)
Zeros(n) == IF n = 0 THEN <<>> ELSE <<0>> \o Zeros(n - 1)

ShiftLeft(a, n) ==
  IF a = <<>> THEN a
  ELSE Zeros(n \div LimbBits) \o BigMulSmall(a, Pow2(n % LimbBits), 0)

\* a shifted right by n bits, and whether a nonzero bit was shifted out.
ShiftRight(a, n) ==
  LET drop == n \div LimbBits
      kept == IF drop >= Len(a) THEN <<>> ELSE SubSeq(a, drop + 1, Len(a))
      lost == IF drop >= Len(a) THEN a ELSE SubSeq(a, 1, drop)
      d    == BigDivSmall(kept, Pow2(n % LimbBits), 0)
  IN  [q      |-> Trim(d.q),
       sticky |-> d.r # 0 \/ \E i \in 1..Len(lost) : lost[i] # 0]

RECURSIVE IntTrailingZeros(_)
IntTrailingZeros(n) == IF n % 2 = 1 THEN 0 ELSE 1 + IntTrailingZeros(n \div 2)

Zero == [neg |-> FALSE, m |-> <<>>, e |-> 0]

\* The canonical form of (-1)^neg * m * 2^e: m odd, or the value 0.
RECURSIVE Canon(_, _, _)
Canon(neg, m, e) ==
  IF m = <<>> THEN Zero
  ELSE IF m[1] = 0 THEN Canon(neg, Tail(m), e + LimbBits)
  ELSE LET z == IntTrailingZeros(m[1])
       IN  [neg |-> neg,
            m   |-> Trim(BigDivSmall(m, Pow2(z), 0).q),
            e   |-> e + z]

Num(n) == Canon(n < 0, BigOfInt(IF n < 0 THEN -n ELSE n), 0)

\* n / 2^k, exactly.
Dyadic(n, k) == Canon(n < 0, BigOfInt(IF n < 0 THEN -n ELSE n), -k)

\* (-1)^neg * (m + f) * 2^e with 0 < f < 1 when sticky, f = 0 otherwise, rounded
\* to Precision significant bits, ties to even.  (Magnitudes of the model stay
\* far inside the exponent range of binary64: no overflow, no subnormals.)
Round(neg, m, e, sticky) ==
  LET L == BitLen(m)
  IN  IF L <= Precision THEN Canon(neg, m, e)
      ELSE LET s     == L - Precision
               sr    == ShiftRight(m, s - 1)
               guard == sr.q[1] % 2 = 1
               q     == Trim(BigDivSmall(sr.q, 2, 0).q)
               up    == guard /\ (sr.sticky \/ sticky \/ q[1] % 2 = 1)
           IN  Canon(neg, IF up THEN BigAdd(q, <<1>>) ELSE q, e + s)

Neg(a) == IF a.m = <<>> THEN a ELSE [a EXCEPT !.neg = ~a.neg]

\* The exact sum of two values.
ExactAdd(a, b) ==
  LET e  == IF a.e < b.e THEN a.e ELSE b.e
      ma == ShiftLeft(a.m, a.e - e)
      mb == ShiftLeft(b.m, b.e - e)
      c  == BigCmp(ma, mb)
  IN  IF a.m = <<>> THEN b
      ELSE IF b.m = <<>> THEN a
      ELSE IF a.neg = b.neg THEN Canon(a.neg, BigAdd(ma, mb), e)
      ELSE IF c = 0 THEN Zero
      ELSE IF c > 0 THEN Canon(a.neg, BigSub(ma, mb), e)
      ELSE Canon(b.neg, BigSub(mb, ma), e)

\* The exact product of two values.
ExactMul(a, b) == Canon(a.neg # b.neg, BigMul(a.m, b.m), a.e + b.e)

\* -1, 0, 1 as a < b, a = b, a > b.
Cmp(a, b) ==
  LET d == ExactAdd(a, Neg(b))
  IN  IF d.m = <<>> THEN 0 ELSE IF d.neg THEN -1 ELSE 1

Leq(a, b) == Cmp(a, b) <= 0
Lt(a, b) == Cmp(a, b) < 0

\* a + b, a - b, a * b of the program.
Plus(a, b) == LET x == ExactAdd(a, b) IN Round(x.neg, x.m, x.e, FALSE)
Minus(a, b) == Plus(a, Neg(b))
Times(a, b) == LET x == ExactMul(a, b) IN Round(x.neg, x.m, x.e, FALSE)

\* a / b of the program, for b # 0 whose odd part is below 2^(2*LimbBits - 6):
\* every divisor of the model is an image size or a small constant.
DivShift == Precision + 2 * LimbBits + 1
Over(a, b) ==
  IF a.m = <<>> THEN Zero
  ELSE LET d == BigDivSmall(ShiftLeft(a.m, DivShift), SmallVal(b.m), 0)
       IN  Round(a.neg # b.neg, Trim(d.q), a.e - b.e - DivShift, d.r # 0)

\* Mutant: Math.max in its place.
MathMax(a, b) == IF Leq(a, b) THEN b ELSE a

\* Math.min(a, b).
MathMin(a, b) == IF Leq(a, b) THEN a ELSE b

\* Values that are no finite number: undefined, null, NaN, and an exception.
Undefined == [kind |-> "undefined"]
JsNull == [kind |-> "null"]
NaN == [kind |-> "NaN"]
Raised == [kind |-> "TypeError"]

\* ToNumber of an operand of *: null is 0, undefined is NaN.
ToNumber(v) == IF v = JsNull THEN Zero ELSE IF v = Undefined THEN NaN ELSE v

\* a * b on operands that may be undefined or null.
JsTimes(a, b) ==
  LET x == ToNumber(a)
      y == ToNumber(b)
  IN  IF x = NaN \/ y = NaN THEN NaN ELSE Times(x, y)

(***************************************************************************)
(* Values of the data model (types.ts).  A field that JSON may leave out   *)
(* or set to null holds Undefined or JsNull; an array holds its elements   *)
(* under "items".                                                          *)
(***************************************************************************)
Array(seq) == [items |-> seq]

\* Bounds of the model.
NumIds == 3
MaxLen == 2

IdNames == <<"H1", "H2", "H3", "H4", "H5">>
HazardIds == {IdNames[i] : i \in 1..NumIds}

Hazard(id, severity) == [id |-> id, severity |-> severity]

Rect(id, x, y, w, h) ==
  [id |-> id, shape |-> "rect", x |-> x, y |-> y, w |-> w, h |-> h,
   points |-> Undefined]

Poly(id, pts) ==
  [id |-> id, shape |-> "poly", x |-> Undefined, y |-> Undefined,
   w |-> Undefined, h |-> Undefined, points |-> Array(pts)]

\* The rect of the specification's example, and a triangle.
QuarterRect(id) == Rect(id, Dyadic(1, 2), Dyadic(1, 2), Dyadic(1, 1), Dyadic(1, 1))
Triangle(id) ==
  Poly(id, <<Array(<<Dyadic(1, 2), Dyadic(1, 2)>>), Array(<<Dyadic(3, 2), Dyadic(1, 2)>>),
             Array(<<Dyadic(1, 1), Dyadic(3, 2)>>)>>)

\* What the external analysis may send: any hazards and regions, ids repeated
\* or unmatched, either list left out or null.
HazardPool == {Hazard(id, sev) : id \in HazardIds, sev \in {"LOW", "HIGH"}}
RegionPool == {QuarterRect(id) : id \in HazardIds} \cup {Triangle(id) : id \in HazardIds}

SeqsUpTo(S, n) == UNION {[1..k -> S] : k \in 0..n}

Responses ==
  [hazards : {Undefined, JsNull} \cup {Array(q) : q \in SeqsUpTo(HazardPool, MaxLen)},
   regions : {Undefined, JsNull} \cup {Array(q) : q \in SeqsUpTo(RegionPool, MaxLen)}]

(***************************************************************************)
(* analyzeImage: the synchronization of the parsed response.               *)
(***************************************************************************)
\* analysis.hazards || []
OrEmpty(v) == IF v \in {Undefined, JsNull} THEN <<>> ELSE v.items

\* new Set(list.map(e => e.id))
IdSet(list) == {list[i].id : i \in 1..Len(list)}

\* list.filter(e => ids.has(e.id))
FilterByIds(list, ids) == SelectSeq(list, LAMBDA e : e.id \in ids)

\* Mutants: the filter against the list's own ids; the id set built from the
\* second element on.
synchronizedHazardsOwnIds(analysis) ==
  LET hazards   == OrEmpty(analysis.hazards)
      hazardIds == IdSet(hazards)
  IN  FilterByIds(hazards, hazardIds)

synchronizedRegionsOwnIds(analysis) ==
  LET regions   == OrEmpty(analysis.regions)
      regionIds == IdSet(regions)
  IN  FilterByIds(regions, regionIds)

synchronizedHazardsSkipFirst(analysis) ==
  LET hazards   == OrEmpty(analysis.hazards)
      regions   == OrEmpty(analysis.regions)
      regionIds == IF regions = <<>> THEN {} ELSE IdSet(Tail(regions))
  IN  FilterByIds(hazards, regionIds)

synchronizedHazards(analysis) ==
  LET hazards   == OrEmpty(analysis.hazards)
      regions   == OrEmpty(analysis.regions)
      regionIds == IdSet(regions)
  IN  FilterByIds(hazards, regionIds)

synchronizedRegions(analysis) ==
  LET hazards   == OrEmpty(analysis.hazards)
      regions   == OrEmpty(analysis.regions)
      hazardIds == IdSet(hazards)
  IN  FilterByIds(regions, hazardIds)

\* The object analyzeImage returns: the parsed one with both lists replaced.
Synchronized(analysis) ==
  [hazards |-> synchronizedHazards(analysis),
   regions |-> synchronizedRegions(analysis)]

(***************************************************************************)
(* ImageDisplay: the layout metrics.                                       *)
(***************************************************************************)
MaxContainer == 7
MaxNatural == 25

\* useState<ImgMetrics>({ naturalW: 0, ... })
InitialMetrics ==
  [naturalW |-> Zero, naturalH |-> Zero, drawW |-> Zero, drawH |-> Zero,
   offsetX |-> Zero, offsetY |-> Zero]

\* computeMetrics, as the metrics it leaves: prev when it returns early.  rect is
\* el.getBoundingClientRect(), img the <img> element (JsNull while none is
\* mounted) with its naturalWidth and naturalHeight.
computeMetrics(prev, rect, img) ==
  IF img = JsNull \/ img.naturalWidth = Zero \/ img.naturalHeight = Zero
  THEN prev
  ELSE LET cw      == rect.width
           ch      == rect.height
           sx      == Over(cw, img.naturalWidth)
           sy      == Over(ch, img.naturalHeight)
           scale   == MathMin(sx, sy)
           drawW   == Times(img.naturalWidth, scale)
           drawH   == Times(img.naturalHeight, scale)
           offsetX == Over(Minus(cw, drawW), Num(2))
           offsetY == Over(Minus(ch, drawH), Num(2))
       IN  [naturalW |-> img.naturalWidth, naturalH |-> img.naturalHeight,
            drawW |-> drawW, drawH |-> drawH,
            offsetX |-> offsetX, offsetY |-> offsetY]

(***************************************************************************)
(* RegionShape and the svg overlay of ImageDisplay.  A drawable is the     *)
(* element RegionShape returns: its tag, the region's id (the key and the  *)
(* argument of its handlers) and its geometry.  The points attribute is    *)
(* held as the pairs of numbers whose decimal forms the string joins.      *)
(***************************************************************************)
\* v != null
IsPresent(v) == v # Undefined /\ v # JsNull

\* An object or array in a condition: truthy unless undefined or null.
Truthy(v) == v # Undefined /\ v # JsNull

\* return null
NoDrawable == [tag |-> "none"]

\* p[0] * width, p[1] * height; an index past the end reads undefined.
At(p, i) == IF i <= Len(p.items) THEN p.items[i] ELSE Undefined
ScaledPoint(p, width, height) == <<JsTimes(At(p, 1), width), JsTimes(At(p, 2), height)>>

\* The element for region scaled by sx along x and by sy along y; Raised when a
\* vertex is null or undefined (p[0] throws).
ShapeOf(region, sx, sy) ==
  IF /\ region.shape = "rect"
     /\ IsPresent(region.x)
     /\ IsPresent(region.y)
     /\ IsPresent(region.w)
     /\ IsPresent(region.h)
  THEN [tag |-> "rect", id |-> region.id,
        x |-> JsTimes(region.x, sx), y |-> JsTimes(region.y, sy),
        width |-> JsTimes(region.w, sx), height |-> JsTimes(region.h, sy)]
  ELSE IF region.shape = "poly" /\ Truthy(region.points)
  THEN LET pts == region.points.items
       IN  IF \E i \in 1..Len(pts) : ~Truthy(pts[i])
           THEN Raised
           ELSE [tag |-> "polygon", id |-> region.id,
                 points |-> [i \in 1..Len(pts) |-> ScaledPoint(pts[i], sx, sy)]]
  ELSE NoDrawable

\* Mutant: both axes scaled by the width.
RegionShapeByWidth(region, width, height) == ShapeOf(region, width, width)

RegionShape(region, width, height) == ShapeOf(region, width, height)

\* Mutant: the children stop at the first region without a drawable.
RECURSIVE ShapesUntilSkipped(_, _, _)
ShapesUntilSkipped(regions, width, height) ==
  IF regions = <<>> \/ RegionShape(Head(regions), width, height) = NoDrawable
  THEN <<>>
  ELSE <<RegionShape(Head(regions), width, height)>>
         \o ShapesUntilSkipped(Tail(regions), width, height)

\* analysis.regions.map(region => <RegionShape ... />)
Shapes(regions, width, height) ==
  [i \in 1..Len(regions) |-> RegionShape(regions[i], width, height)]

\* {analysis && metrics.drawW > 0 && (<svg> ... </svg>)}: no svg, the svg's
\* children, or Raised when a child throws while rendering.
NoOverlay == [kind |-> "no svg"]
Overlay(an, m) ==
  IF an = JsNull \/ ~Lt(Zero, m.drawW)
  THEN NoOverlay
  ELSE LET shapes == Shapes(an.regions, m.drawW, m.drawH)
       IN  IF \E i \in 1..Len(shapes) : shapes[i] = Raised
           THEN Raised
           ELSE [shapes |-> shapes]

(***************************************************************************)
(* The canvas of createMaskFromRegion.  A raster is the canvas's size and  *)
(* the fills made on it, in order; the tone of a pixel follows from how    *)
(* much of the pixel's unit square each fill covers: all of it, none of    *)
(* it, or a part (an anti-aliased edge, a blend of the fill and the tone   *)
(* below).                                                                 *)
(***************************************************************************)
Sign(v) == IF v = Zero THEN 0 ELSE IF v.neg THEN -1 ELSE 1
ExactMinus(a, b) == ExactAdd(a, Neg(b))

\* (a - o) x (b - o), exactly.
Cross(o, a, b) ==
  ExactMinus(ExactMul(ExactMinus(a[1], o[1]), ExactMinus(b[2], o[2])),
             ExactMul(ExactMinus(a[2], o[2]), ExactMinus(b[1], o[1])))

Succ(pts, i) == pts[(i % Len(pts)) + 1]

\* The sign of the path's signed area.
RECURSIVE AreaFrom(_, _)
AreaFrom(pts, i) ==
  IF i + 1 > Len(pts) THEN Zero
  ELSE ExactAdd(Cross(pts[1], pts[i], pts[i + 1]), AreaFrom(pts, i + 1))
Orientation(pts) == IF Len(pts) < 3 THEN 0 ELSE Sign(AreaFrom(pts, 2))

\* The side of q of the path's i-th edge: 1 inside, 0 on the edge's line.
EdgeSide(pts, i, q) == Sign(Cross(pts[i], Succ(pts, i), q)) * Orientation(pts)

IsConvex(pts) == \A i, j \in 1..Len(pts) : EdgeSide(pts, i, pts[j]) >= 0

\* The corners of the pixel (px, py).
Corners(px, py) ==
  {<<Num(px), Num(py)>>, <<Num(px + 1), Num(py)>>,
   <<Num(px), Num(py + 1)>>, <<Num(px + 1), Num(py + 1)>>}

\* The pixel lies beside the path's bounding box.
BesideBox(pts, px, py) ==
  \/ \A i \in 1..Len(pts) : Leq(pts[i][1], Num(px))
  \/ \A i \in 1..Len(pts) : Leq(Num(px + 1), pts[i][1])
  \/ \A i \in 1..Len(pts) : Leq(pts[i][2], Num(py))
  \/ \A i \in 1..Len(pts) : Leq(Num(py + 1), pts[i][2])

\* How much of the pixel the filled path covers; a path that is not convex is
\* told apart from the pixel only by its bounding box.
PathCoverage(pts, px, py) ==
  IF Orientation(pts) = 0 \/ BesideBox(pts, px, py) THEN "none"
  ELSE IF ~IsConvex(pts) THEN "part"
  ELSE IF \A c \in Corners(px, py) : \A i \in 1..Len(pts) : EdgeSide(pts, i, c) >= 0
  THEN "full"
  ELSE IF \E i \in 1..Len(pts) : \A c \in Corners(px, py) : EdgeSide(pts, i, c) <= 0
  THEN "none"
  ELSE "part"

\* How much of the pixel fillRect(x, y, w, h) covers; a call with an argument
\* that is not finite, or without area, paints nothing.
RectCoverage(x, y, w, h, px, py) ==
  IF NaN \in {x, y, w, h} \/ w = Zero \/ h = Zero THEN "none"
  ELSE LET xw == ExactAdd(x, w)
           yh == ExactAdd(y, h)
           x0 == IF w.neg THEN xw ELSE x
           x1 == IF w.neg THEN x ELSE xw
           y0 == IF h.neg THEN yh ELSE y
           y1 == IF h.neg THEN y ELSE yh
       IN  IF \/ Leq(Num(px + 1), x0) \/ Leq(x1, Num(px))
              \/ Leq(Num(py + 1), y0) \/ Leq(y1, Num(py))
           THEN "none"
           ELSE IF /\ Leq(x0, Num(px)) /\ Leq(Num(px + 1), x1)
                   /\ Leq(y0, Num(py)) /\ Leq(Num(py + 1), y1)
           THEN "full"
           ELSE "part"

\* moveTo and lineTo ignore a point with a coordinate that is not finite.
FinitePoints(pts) == SelectSeq(pts, LAMBDA p : p[1] # NaN /\ p[2] # NaN)

Coverage(fill, px, py) ==
  IF fill.op = "fillRect"
  THEN RectCoverage(fill.x, fill.y, fill.w, fill.h, px, py)
  ELSE PathCoverage(FinitePoints(fill.points), px, py)

\* The tone of the pixel once the fills from the i-th on are painted over tone.
RECURSIVE ToneFrom(_, _, _, _, _)
ToneFrom(fills, i, tone, px, py) ==
  IF i > Len(fills) THEN tone
  ELSE LET c == Coverage(fills[i], px, py)
           t == IF c = "none" THEN tone
                ELSE IF c = "full" \/ tone = fills[i].fillStyle THEN fills[i].fillStyle
                ELSE "blend"
       IN  ToneFrom(fills, i + 1, t, px, py)

\* The tone of pixel (px, py) of the raster.
ToneAt(raster, px, py) == ToneFrom(raster.fills, 1, "transparent", px, py)

\* v !== undefined
IsDefined(v) == v # Undefined

\* ctx.fillStyle = 'black'; ctx.fillRect(0, 0, width, height)
Background(width, height) ==
  [op |-> "fillRect", fillStyle |-> "black",
   x |-> Zero, y |-> Zero, w |-> width, h |-> height]

\* Mutant: the region's fill scaled by the height along both axes.
RegionFillByHeight(region, width, height) ==
  IF region.shape = "rect"
  THEN [op |-> "fillRect", fillStyle |-> "white",
        x |-> JsTimes(region.x, height), y |-> JsTimes(region.y, height),
        w |-> JsTimes(region.w, height), h |-> JsTimes(region.h, height)]
  ELSE [op |-> "fill", fillStyle |-> "white",
        points |-> [i \in 1..Len(region.points.items) |->
                      ScaledPoint(region.points.items[i], height, height)]]

\* ctx.fillStyle = 'white' and the region's fillRect, or its path and fill.
RegionFill(region, width, height) ==
  IF region.shape = "rect"
  THEN [op |-> "fillRect", fillStyle |-> "white",
        x |-> JsTimes(region.x, width), y |-> JsTimes(region.y, height),
        w |-> JsTimes(region.w, width), h |-> JsTimes(region.h, height)]
  ELSE [op |-> "fill", fillStyle |-> "white",
        points |-> [i \in 1..Len(region.points.items) |->
                      ScaledPoint(region.points.items[i], width, height)]]

\* createMaskFromRegion: the raster that toDataURL encodes, or Raised when
\* region.points[0] or a later vertex is undefined or null.  The 2d context of
\* the fresh canvas is taken to exist.
createMaskFromRegion(region, width, height) ==
  IF /\ region.shape = "rect"
     /\ IsDefined(region.x)
     /\ IsDefined(region.y)
     /\ IsDefined(region.w)
     /\ IsDefined(region.h)
  THEN [width |-> width, height |-> height,
        fills |-> <<Background(width, height), RegionFill(region, width, height)>>]
  ELSE IF region.shape = "poly" /\ Truthy(region.points)
  THEN IF \/ region.points.items = <<>>
          \/ \E i \in 1..Len(region.points.items) : ~Truthy(region.points.items[i])
       THEN Raised
       ELSE [width |-> width, height |-> height,
             fills |-> <<Background(width, height), RegionFill(region, width, height)>>]
  ELSE [width |-> width, height |-> height, fills |-> <<Background(width, height)>>]

(***************************************************************************)
(* The style RegionShape gives its element.  A colour is its red, green    *)
(* and blue and its opacity; a severity is the string of                   *)
(* hazard.risk.severity, "undefined" when the risk or its severity is left *)
(* out.                                                                    *)
(***************************************************************************)
Rgba(r, g, b, a) == [rgb |-> <<r, g, b>>, opacity |-> a]

\* getRiskColor: colors[risk] || gray-500
getRiskColor(risk, opacity) ==
  IF risk = "HIGH" THEN Rgba(239, 68, 68, opacity)
  ELSE IF risk = "MEDIUM" THEN Rgba(245, 158, 11, opacity)
  ELSE IF risk = "LOW" THEN Rgba(34, 197, 94, opacity)
  ELSE Rgba(107, 114, 128, opacity)

\* 'rgb(59 130 246)' and 'transparent'
SelectionColor == Rgba(59, 130, 246, Num(1))
Transparent == Rgba(0, 0, 0, Zero)

\* analysis.hazards.find(h => h.id === id)
FindHazard(hazards, id) ==
  IF \E i \in 1..Len(hazards) : hazards[i].id = id
  THEN hazards[CHOOSE i \in 1..Len(hazards) :
                 /\ hazards[i].id = id
                 /\ \A j \in 1..(i - 1) : hazards[j].id # id]
  ELSE Undefined

\* hazard?.risk?.severity
SeverityOf(hazard) == IF hazard = Undefined THEN "undefined" ELSE hazard.severity

\* hazard?.risk?.severity ?? 'MEDIUM'
riskSeverity(hazard) ==
  IF SeverityOf(hazard) \in {"undefined", "null"} THEN "MEDIUM" ELSE SeverityOf(hazard)

\* isSelected ? 6 : (isHovered ? 4 : 2.5)
StrokeWidth(isSelected, isHovered) ==
  IF isSelected THEN Num(6) ELSE IF isHovered THEN Num(4) ELSE Dyadic(5, 1)

\* commonProps: strokeWidth, stroke and fill.
commonProps(hazard, isSelected, isHovered) ==
  [strokeWidth |-> StrokeWidth(isSelected, isHovered),
   stroke |-> IF isSelected THEN SelectionColor
              ELSE getRiskColor(riskSeverity(hazard), Num(1)),
   fill |-> IF isHovered THEN getRiskColor(riskSeverity(hazard), Dyadic(1, 2))
            ELSE Transparent]

\* The commonProps of the svg's children: of the i-th, those of its region's
\* hazard, selected and hovered by its region's id.
OverlayProps(an, o, selected, hovered) ==
  IF o \in {[kind |-> "not yet"], NoOverlay, Raised}
  THEN o
  ELSE [props |->
          [i \in 1..Len(o.shapes) |->
             IF o.shapes[i] = NoDrawable
             THEN NoDrawable
             ELSE commonProps(FindHazard(an.hazards, an.regions[i].id),
                              selected = an.regions[i].id,
                              hovered = an.regions[i].id)]]

\* A canvas element as created: 300 x 150, nothing painted.
BlankCanvas == [width |-> Num(300), height |-> Num(150), gradients |-> <<>>]

(***************************************************************************)
(* The heatmap effect of ImageDisplay.  The heat buffer is the canvas's    *)
(* size in pixels and the radial gradients filled on it since it was last  *)
(* cleared, in order.                                                      *)
(***************************************************************************)
\* Math.round(x): the nearest integer, a half upwards.
MathRound(x) ==
  IF x.e >= 0 THEN x
  ELSE LET twice == ShiftRight(x.m, (-x.e) - 1)
           half  == Trim(BigDivSmall(twice.q, 2, 0).q)
           odd   == twice.q # <<>> /\ twice.q[1] % 2 = 1
           up    == IF x.neg THEN odd /\ twice.sticky ELSE odd
       IN  Canon(x.neg, IF up THEN BigAdd(half, <<1>>) ELSE half, 0)

\* Math.min(...xs) and Math.max(...xs) of a non-empty list.
RECURSIVE MinOf(_)
MinOf(xs) == IF Len(xs) = 1 THEN xs[1] ELSE MathMin(xs[1], MinOf(Tail(xs)))
RECURSIVE MaxOf(_)
MaxOf(xs) == IF Len(xs) = 1 THEN xs[1] ELSE MathMax(xs[1], MaxOf(Tail(xs)))

\* The centre of the bounding box of the points of coordinates xs and ys.
BoxCentre(xs, ys) ==
  [x |-> Over(Plus(MinOf(xs), MaxOf(xs)), Num(2)),
   y |-> Over(Plus(MinOf(ys), MaxOf(ys)), Num(2))]

\* centerOf: the centre of a rect, the centre of the bounding box of a poly,
\* null for any other region; Raised when a vertex is null (p[0] throws).
centerOf(r, m) ==
  IF /\ r.shape = "rect"
     /\ IsPresent(r.x)
     /\ IsPresent(r.y)
     /\ IsPresent(r.w)
     /\ IsPresent(r.h)
  THEN [x |-> Times(Plus(r.x, Over(r.w, Num(2))), m.drawW),
        y |-> Times(Plus(r.y, Over(r.h, Num(2))), m.drawH)]
  ELSE IF r.shape = "poly" /\ Truthy(r.points) /\ Len(r.points.items) > 0
  THEN IF \E i \in 1..Len(r.points.items) : ~Truthy(r.points.items[i])
       THEN Raised
       ELSE BoxCentre([i \in 1..Len(r.points.items) |->
                         Times(r.points.items[i].items[1], m.drawW)],
                      [i \in 1..Len(r.points.items) |->
                         Times(r.points.items[i].items[2], m.drawH)])
  ELSE JsNull

\* heatRGB[hz.risk?.severity || 'MEDIUM']: undefined for a key it does not have.
heatRGB(severity) ==
  LET key == IF severity \in {"undefined", "null", ""} THEN "MEDIUM" ELSE severity
  IN  IF key = "HIGH" THEN Array(<<239, 68, 68>>)
      ELSE IF key = "MEDIUM" THEN Array(<<245, 158, 11>>)
      ELSE IF key = "LOW" THEN Array(<<34, 197, 94>>)
      ELSE Undefined

\* Mutant: the radius taken from the drawn height.
logicalRadiusByHeight(severity, m) ==
  IF severity = "HIGH" THEN Times(m.drawH, Dyadic(1, 2))
  ELSE IF severity = "MEDIUM" THEN Times(m.drawH, Over(Num(18), Num(100)))
  ELSE Times(m.drawH, Over(Num(12), Num(100)))

\* logicalRadius: drawW * 0.25, drawW * 0.18 or drawW * 0.12.
logicalRadius(severity, m) ==
  IF severity = "HIGH" THEN Times(m.drawW, Dyadic(1, 2))
  ELSE IF severity = "MEDIUM" THEN Times(m.drawW, Over(Num(18), Num(100)))
  ELSE Times(m.drawW, Over(Num(12), Num(100)))

\* analysis.regions.find(r => r.id === id)
FindRegion(regions, id) ==
  IF \E i \in 1..Len(regions) : regions[i].id = id
  THEN regions[CHOOSE i \in 1..Len(regions) :
                 /\ regions[i].id = id
                 /\ \A j \in 1..(i - 1) : regions[j].id # id]
  ELSE Undefined

\* No gradient for a hazard: the forEach callback returned early.
NoGradient == [kind |-> "no gradient"]

\* The centre c of the hazard's region, if it has one.
CentreOfRegion(region, m) == IF region = Undefined THEN JsNull ELSE centerOf(region, m)

\* The gradient of colour rgb and of the logical radius given, centred at c, on
\* a canvas of ratio pixels per unit; NoGradient without a centre; Raised when
\* centerOf threw or when rgba reads rgb[0] of undefined.
GradientAt(c, rgb, radius, ratio) ==
  IF c = JsNull THEN NoGradient
  ELSE IF c = Raised \/ rgb = Undefined THEN Raised
  ELSE [cx |-> Times(c.x, ratio), cy |-> Times(c.y, ratio),
        radius |-> Times(radius, ratio), rgb |-> rgb]

\* The body of the forEach for hazard hz.
HeatOf(hz, an, m, ratio) ==
  GradientAt(CentreOfRegion(FindRegion(an.regions, hz.id), m),
             heatRGB(hz.severity), logicalRadius(hz.severity, m), ratio)

\* What the calls of the callback leave: Raised when one throws, else the
\* gradients filled, in order.
Filled(each) ==
  IF \E i \in 1..Len(each) : each[i] = Raised
  THEN Raised
  ELSE Array(SelectSeq(each, LAMBDA g : g # NoGradient))

\* analysis.hazards.forEach(...)
Gradients(an, m, ratio) ==
  Filled([i \in 1..Len(an.hazards) |-> HeatOf(an.hazards[i], an, m, ratio)])

\* The canvas of the size given, cleared, with what forEach painted.
Repainted(painted, width, height) ==
  IF painted = Raised THEN Raised
  ELSE [width |-> width, height |-> height, gradients |-> painted.items]

\* The effect on [viewMode, analysis, metrics], given the canvas as it is: the
\* canvas afterwards.  An exception of the effect unmounts the tree, canvas
\* included: Raised, for good.
heatmapEffect(canvas, mode, an, m, ratio) ==
  IF canvas = Raised THEN Raised
  ELSE IF mode # "heatmap" \/ an = JsNull \/ m.drawW = Zero THEN canvas
  ELSE Repainted(Gradients(an, m, ratio),
                 MathRound(Times(m.drawW, ratio)),
                 MathRound(Times(m.drawH, ratio)))

(***************************************************************************)
(* State.                                                                  *)
(***************************************************************************)
VARIABLES
  response,    \* the parsed JSON of the external analysis
  synced,      \* what analyzeImage returns for it
  resynced,    \* the synchronization of that result
  rect,        \* the container's bounding rectangle
  img,         \* the <img> element: JsNull, or its natural size
  metrics,     \* ImageDisplay's metrics state
  rafPending,  \* computeMetrics calls queued by requestAnimationFrame
  preview,     \* ImageUploader's preview state
  reading,     \* the files a FileReader is reading
  imageFile, imageBase64, workingImageBase64, analysis,
  isAnalyzing, isLoadingSafeImage, isApplyingTargetedFix, isLoadingChecklist,
  error, selectedHazardId, hoveredHazardId, safeVersionImageUrl,
  viewMode,    \* App's state, as its useState calls name it ("null" for null)
  analyzeCall, \* the pending analyzeImage call of handleAnalyze
  fixCall,     \* the pending handleTargetedFix: its stage and what it closed over
  reportCall,  \* the pending generateSafeImage or generateChecklist call
  analysisSource, \* history: the parsed response that analysis was made from
  syncPasses,  \* history: how often the synchronizer ran on analysis
  overlay,     \* what the svg overlay last rendered: its children's geometry
  overlayProps, \* and their commonProps
  heat,        \* the heatmap canvas: its size and the gradients painted on it
  dpr,         \* window.devicePixelRatio
  lastEvent,   \* history: the last pointer event on the overlay
  maskArgs,    \* the arguments of the last createMaskFromRegion call
  mask         \* and its result

syncVars == <<response, synced, resynced>>
layoutVars == <<rect, img, metrics, rafPending>>
appVars ==
  <<preview, reading, imageFile, imageBase64, workingImageBase64, analysis,
    isAnalyzing, isLoadingSafeImage, isApplyingTargetedFix, isLoadingChecklist,
    error, selectedHazardId, hoveredHazardId, safeVersionImageUrl, viewMode,
    analyzeCall, fixCall, reportCall, analysisSource, syncPasses>>
renderVars == <<overlay, overlayProps, heat, dpr, lastEvent>>
maskVars == <<maskArgs, mask>>
vars == <<syncVars, layoutVars, appVars, renderVars, maskVars>>

NotYet == [kind |-> "not yet"]

NoCall == [stage |-> "none"]

SyncIdle == response = Undefined /\ synced = NotYet /\ resynced = NotYet
LayoutIdle ==
  /\ rect = [width |-> Zero, height |-> Zero]
  /\ img = JsNull
  /\ metrics = InitialMetrics
  /\ rafPending = 0
\* App as mounted, but for its analysis, selection, hover and view mode.
AppShell ==
  /\ preview = "null"
  /\ reading = {}
  /\ imageFile = "null"
  /\ imageBase64 = "null"
  /\ workingImageBase64 = "null"
  /\ isAnalyzing = FALSE
  /\ isLoadingSafeImage = FALSE
  /\ isApplyingTargetedFix = FALSE
  /\ isLoadingChecklist = FALSE
  /\ error = "null"
  /\ safeVersionImageUrl = "null"
  /\ analyzeCall = NoCall
  /\ fixCall = NoCall
  /\ reportCall = NoCall
\* App as mounted, but for its analysis.
AppRest ==
  /\ AppShell
  /\ selectedHazardId = "null"
  /\ hoveredHazardId = "null"
  /\ viewMode = "regions"
AppIdle ==
  /\ AppRest
  /\ analysis = JsNull
  /\ analysisSource = Undefined
  /\ syncPasses = 0
RenderIdle ==
  /\ overlay = NotYet
  /\ overlayProps = NotYet
  /\ heat = BlankCanvas
  /\ dpr = Num(1)
  /\ lastEvent = NotYet
MaskIdle == maskArgs = NotYet /\ mask = NotYet

(***************************************************************************)
(* The synchronizer on every response: analyzeImage's lines 114-131, and   *)
(* the same lines applied to their own result.                             *)
(***************************************************************************)
Synchronize ==
  /\ synced = NotYet
  /\ synced' = Synchronized(response)
  /\ UNCHANGED <<response, resynced, layoutVars, appVars, renderVars, maskVars>>

Resynchronize ==
  /\ synced # NotYet
  /\ resynced = NotYet
  /\ resynced' = Synchronized([hazards |-> Array(synced.hazards),
                               regions |-> Array(synced.regions)])
  /\ UNCHANGED <<response, synced, layoutVars, appVars, renderVars, maskVars>>

SyncInit ==
  /\ response \in Responses
  /\ synced = NotYet
  /\ resynced = NotYet
  /\ LayoutIdle
  /\ AppIdle
  /\ RenderIdle
  /\ MaskIdle

SyncNext == Synchronize \/ Resynchronize

SpecSync == SyncInit /\ [][SyncNext]_vars

(***************************************************************************)
(* computeMetrics on every container and image size.                       *)
(***************************************************************************)
Sizes(n) == {Num(k) : k \in 1..n}

RunComputeMetrics ==
  /\ metrics = InitialMetrics
  /\ metrics' = computeMetrics(metrics, rect, img)
  /\ UNCHANGED <<rect, img, rafPending, syncVars, appVars, renderVars, maskVars>>

FitInit ==
  /\ rect \in [width : Sizes(MaxContainer), height : Sizes(MaxContainer)]
  /\ img \in [naturalWidth : Sizes(MaxNatural), naturalHeight : Sizes(MaxNatural)]
  /\ metrics = InitialMetrics
  /\ rafPending = 0
  /\ SyncIdle
  /\ AppIdle
  /\ RenderIdle
  /\ MaskIdle

FitNext == RunComputeMetrics

SpecFit == FitInit /\ [][FitNext]_vars

(***************************************************************************)
(* Claims about computeMetrics.                                            *)
(***************************************************************************)
Half(a) == ExactMul(a, Dyadic(1, 1))
Abs(a) == [a EXCEPT !.neg = FALSE]
ExactSub(a, b) == ExactAdd(a, Neg(b))

\* The metrics are those of a computeMetrics call on four positive sizes.
FitComputed ==
  /\ metrics # InitialMetrics
  /\ rect.width # Zero
  /\ rect.height # Zero

\* C6 as stated: the drawn image fits the container exactly on one axis and
\* within it on the other, with the exact aspect ratio and exact, non-negative
\* centring offsets.
C6_FitExact ==
  FitComputed =>
    /\ Leq(metrics.drawW, rect.width)
    /\ Leq(metrics.drawH, rect.height)
    /\ metrics.drawW = rect.width \/ metrics.drawH = rect.height
    /\ ExactMul(metrics.drawW, img.naturalHeight)
         = ExactMul(metrics.drawH, img.naturalWidth)
    /\ metrics.offsetX = Half(ExactSub(rect.width, metrics.drawW))
    /\ metrics.offsetY = Half(ExactSub(rect.height, metrics.drawH))
    /\ Leq(Zero, metrics.offsetX)
    /\ Leq(Zero, metrics.offsetY)

\* |a - b| <= 2^-51 * c
Tolerance == Dyadic(1, 51)
Near(a, b, c) == Leq(Abs(ExactSub(a, b)), ExactMul(Tolerance, c))

\* C6 amended: the same, each comparison up to a relative rounding error of
\* 2^-51 (computeMetrics rounds cw / nw and nw * scale, so drawW may exceed cw,
\* or miss it, by a unit in the last place, and the offset may be that much
\* below zero).
C6_FitWithinRounding ==
  FitComputed =>
    /\ Leq(metrics.drawW, ExactAdd(rect.width, ExactMul(Tolerance, rect.width)))
    /\ Leq(metrics.drawH, ExactAdd(rect.height, ExactMul(Tolerance, rect.height)))
    /\ \/ Near(metrics.drawW, rect.width, rect.width)
       \/ Near(metrics.drawH, rect.height, rect.height)
    /\ Near(ExactMul(metrics.drawW, img.naturalHeight),
            ExactMul(metrics.drawH, img.naturalWidth),
            ExactMul(metrics.drawW, img.naturalHeight))
    /\ Near(metrics.offsetX, Half(ExactSub(rect.width, metrics.drawW)), rect.width)
    /\ Near(metrics.offsetY, Half(ExactSub(rect.height, metrics.drawH)), rect.height)
    /\ Leq(Neg(ExactMul(Tolerance, rect.width)), metrics.offsetX)
    /\ Leq(Neg(ExactMul(Tolerance, rect.height)), metrics.offsetY)

\* A computed layout whose drawn width exceeds the container's by rounding,
\* leaving a negative offset.
C6_Witness ==
  /\ FitComputed
  /\ Lt(rect.width, metrics.drawW)
  /\ metrics.offsetX.neg

(***************************************************************************)
(* ImageDisplay's layout as events: the ResizeObserver's callback, the     *)
(* <img> element's load and error, and the animation frame that the load   *)
(* listener requests.                                                      *)
(***************************************************************************)
MaxRaf == 2

\* Container sides and image sizes of the event model.
LayoutSides == {Zero, Num(4), Num(6)}
LayoutImages ==
  {[naturalWidth |-> Num(2), naturalHeight |-> Num(1)],
   [naturalWidth |-> Num(3), naturalHeight |-> Num(5)]}
\* An <img> that holds no decoded image: mounted and still loading, or broken.
NoImage == [naturalWidth |-> Zero, naturalHeight |-> Zero]

\* new ResizeObserver(computeMetrics): the container's box changed.
ContainerResize(w, h) ==
  /\ rect # [width |-> w, height |-> h]
  /\ rect' = [width |-> w, height |-> h]
  /\ metrics' = computeMetrics(metrics, rect', img)
  /\ heat' = heatmapEffect(heat, viewMode, analysis, metrics', dpr)
  /\ UNCHANGED <<img, rafPending, syncVars, appVars, overlay, overlayProps,
                 dpr, lastEvent, maskVars>>

\* imageSrc becomes non-null: the <img> element is rendered.
ImageMount ==
  /\ img = JsNull
  /\ img' = NoImage
  /\ UNCHANGED <<rect, metrics, rafPending, syncVars, appVars, renderVars, maskVars>>

\* The element's load event: onLoad requests an animation frame.
ImageLoad(image) ==
  /\ img # JsNull
  /\ rafPending < MaxRaf
  /\ img' = image
  /\ rafPending' = rafPending + 1
  /\ UNCHANGED <<rect, metrics, syncVars, appVars, renderVars, maskVars>>

\* The element's error event: no listener; the element is left without an image.
ImageError ==
  /\ img # JsNull
  /\ img' = NoImage
  /\ UNCHANGED <<rect, metrics, rafPending, syncVars, appVars, renderVars, maskVars>>

\* Mutant: the frame's computeMetrics only sets metrics that were never set.
AnimationFrameOnce ==
  /\ rafPending > 0
  /\ rafPending' = rafPending - 1
  /\ metrics' = IF metrics = InitialMetrics
                THEN computeMetrics(metrics, rect, img) ELSE metrics
  /\ heat' = heatmapEffect(heat, viewMode, analysis, metrics', dpr)
  /\ UNCHANGED <<rect, img, syncVars, appVars, overlay, overlayProps, dpr,
                 lastEvent, maskVars>>

\* requestAnimationFrame(computeMetrics) comes due.
AnimationFrame ==
  /\ rafPending > 0
  /\ rafPending' = rafPending - 1
  /\ metrics' = computeMetrics(metrics, rect, img)
  /\ heat' = heatmapEffect(heat, viewMode, analysis, metrics', dpr)
  /\ UNCHANGED <<rect, img, syncVars, appVars, overlay, overlayProps, dpr,
                 lastEvent, maskVars>>

LayoutInit == LayoutIdle /\ SyncIdle /\ AppIdle /\ RenderIdle /\ MaskIdle

LayoutNext ==
  \/ \E w \in LayoutSides, h \in LayoutSides : ContainerResize(w, h)
  \/ ImageMount
  \/ \E image \in LayoutImages : ImageLoad(image)
  \/ ImageError
  \/ AnimationFrame

SpecLayout == LayoutInit /\ [][LayoutNext]_vars

\* A recomputation ran in this step (the observer's, or a frame's), on a
\* container or image without a size.
RecomputedUnsized ==
  /\ rect' # rect \/ rafPending' < rafPending
  /\ \/ rect'.width = Zero
     \/ rect'.height = Zero
     \/ img' = JsNull
     \/ img'.naturalWidth = Zero
     \/ img'.naturalHeight = Zero

\* C7: a recomputation while the container or the image has no size leaves the
\* metrics as they were.
C7_UnsizedKeepsMetrics ==
  [][metrics.drawW # Zero /\ RecomputedUnsized => metrics' = metrics]_vars

\* The part of C7 the guard of computeMetrics does give: an image without a
\* natural size leaves the metrics as they were.
C7_NoImageKeepsMetrics ==
  [][(/\ rect' # rect \/ rafPending' < rafPending
      /\ \/ img' = JsNull
         \/ img'.naturalWidth = Zero
         \/ img'.naturalHeight = Zero) => metrics' = metrics]_vars

(***************************************************************************)
(* App: its state, its handlers, and the calls they leave pending.  An     *)
(* image is named by the file it was read from; the image a targeted fix   *)
(* returns for it by Edited.                                               *)
(***************************************************************************)
Files == {"A", "B"}
Edited(image) == IF image \in {"A", "A*"} THEN "A*" ELSE "B*"

\* The messages of setError.
PleaseSelect == "Please select an image first."
UnknownAnalysisError == "An unknown error occurred during analysis."
InvalidFormat == "The analysis returned an invalid format. Please try again."
NoRegionFound == "Could not find region for hazard. The button should have been disabled."
MaskError == "Cannot read properties of undefined"
ImageLoadError == "Could not load image to create mask."
FixFailed == "Failed to apply targeted fix."
NoImageReturned == "The model did not return an image for the targeted fix."
SafeFailed == "Failed to generate safe version."
ChecklistFailed == "Failed to generate checklist."
\* The message of an error the external call rejects with; it may be empty.
ExternalErrors == {"", "Request failed."}

\* What the external analysis may answer an Analyze with: hazards and regions
\* that match, that match in part, no hazards at all, and a polygon without
\* points.
AppResponses ==
  {[hazards |-> Array(<<Hazard("H1", "HIGH"), Hazard("H2", "LOW")>>),
    regions |-> Array(<<QuarterRect("H1"), Triangle("H2")>>)],
   [hazards |-> Array(<<Hazard("H1", "HIGH"), Hazard("H2", "LOW")>>),
    regions |-> Array(<<QuarterRect("H2"), Triangle("H3")>>)],
   [hazards |-> Undefined,
    regions |-> Array(<<QuarterRect("H1")>>)],
   [hazards |-> Array(<<Hazard("H1", "LOW")>>),
    regions |-> Array(<<Poly("H1", <<>>)>>)]}

\* The natural size of the image that handleTargetedFix loads.
LoadedSize == [width |-> 400, height |-> 300]

\* Mutant: the parsed response returned as it came.
analyzeImageUnsynchronized(r) ==
  [hazards |-> OrEmpty(r.hazards), regions |-> OrEmpty(r.regions)]

\* analyzeImage on a response that parses to r.
analyzeImage(r) == Synchronized(r)

\* The guards of the handlers.
NoImageSelected == imageFile = "null" \/ workingImageBase64 = "null"
NothingToEdit == analysis = JsNull \/ workingImageBase64 = "null" \/ imageFile = "null"

\* handleFileChange: the file input (disabled while isLoading) hands a file to a
\* FileReader.
PickFile(f) ==
  /\ ~(isAnalyzing \/ isApplyingTargetedFix)
  /\ f \notin reading
  /\ reading' = reading \cup {f}
  /\ UNCHANGED <<preview, imageFile, imageBase64, workingImageBase64, analysis,
                 isAnalyzing, isLoadingSafeImage, isApplyingTargetedFix,
                 isLoadingChecklist, error, selectedHazardId, hoveredHazardId,
                 safeVersionImageUrl, viewMode, analyzeCall, fixCall,
                 reportCall, analysisSource, syncPasses, syncVars, layoutVars,
                 renderVars, maskVars>>

\* Mutant: handleImageSelect with a clearState that leaves selection and hover.
ReadEndKeepingSelection(f, ok) ==
  LET base64 == IF ok THEN f ELSE "null"
  IN
  /\ f \in reading
  /\ reading' = reading \ {f}
  /\ preview' = base64
  /\ imageFile' = f
  /\ imageBase64' = base64
  /\ workingImageBase64' = base64
  /\ analysis' = JsNull
  /\ error' = "null"
  /\ safeVersionImageUrl' = "null"
  /\ analysisSource' = Undefined
  /\ syncPasses' = 0
  /\ heat' = heatmapEffect(heat, viewMode, analysis', metrics, dpr)
  /\ UNCHANGED <<selectedHazardId, hoveredHazardId, isAnalyzing, isLoadingSafeImage, isApplyingTargetedFix,
                 isLoadingChecklist, viewMode, analyzeCall, fixCall,
                 reportCall, syncVars, layoutVars, overlay, overlayProps, dpr,
                 lastEvent, maskVars>>

\* reader.onloadend, after a read or a failed one (its result is then null):
\* setPreview and handleImageSelect, which ends in clearState.
ReadEnd(f, ok) ==
  LET base64 == IF ok THEN f ELSE "null"
  IN
  /\ f \in reading
  /\ reading' = reading \ {f}
  /\ preview' = base64
  /\ imageFile' = f
  /\ imageBase64' = base64
  /\ workingImageBase64' = base64
  /\ analysis' = JsNull
  /\ error' = "null"
  /\ selectedHazardId' = "null"
  /\ hoveredHazardId' = "null"
  /\ safeVersionImageUrl' = "null"
  /\ analysisSource' = Undefined
  /\ syncPasses' = 0
  /\ heat' = heatmapEffect(heat, viewMode, analysis', metrics, dpr)
  /\ UNCHANGED <<isAnalyzing, isLoadingSafeImage, isApplyingTargetedFix,
                 isLoadingChecklist, viewMode, analyzeCall, fixCall,
                 reportCall, syncVars, layoutVars, overlay, overlayProps, dpr,
                 lastEvent, maskVars>>

\* handleAnalyze up to its await; the button is rendered once a preview exists
\* and while not isLoading.
Analyze ==
  /\ preview # "null"
  /\ ~(isAnalyzing \/ isApplyingTargetedFix)
  /\ error' = IF NoImageSelected THEN PleaseSelect ELSE "null"
  /\ isAnalyzing' = ~NoImageSelected
  /\ analyzeCall' = IF NoImageSelected THEN NoCall
     ELSE [stage |-> "pending", image |-> workingImageBase64, type |-> imageFile]
  /\ analysis' = IF NoImageSelected THEN analysis ELSE JsNull
  /\ selectedHazardId' = IF NoImageSelected THEN selectedHazardId ELSE "null"
  /\ hoveredHazardId' = IF NoImageSelected THEN hoveredHazardId ELSE "null"
  /\ safeVersionImageUrl' = IF NoImageSelected THEN safeVersionImageUrl ELSE "null"
  /\ analysisSource' = IF NoImageSelected THEN analysisSource ELSE Undefined
  /\ syncPasses' = IF NoImageSelected THEN syncPasses ELSE 0
  /\ heat' = heatmapEffect(heat, viewMode, analysis', metrics, dpr)
  /\ UNCHANGED <<preview, reading, imageFile, imageBase64, workingImageBase64,
                 isLoadingSafeImage, isApplyingTargetedFix, isLoadingChecklist,
                 viewMode, fixCall, reportCall, syncVars, layoutVars, overlay,
                 overlayProps, dpr, lastEvent, maskVars>>

\* generateContent resolves with JSON that parses to r: analyzeImage returns,
\* setAnalysis(result), and finally setIsAnalyzing(false).
AnalyzeResolve(r) ==
  /\ analyzeCall # NoCall
  /\ analysis' = analyzeImage(r)
  /\ analysisSource' = r
  /\ syncPasses' = 1
  /\ isAnalyzing' = FALSE
  /\ analyzeCall' = NoCall
  /\ heat' = heatmapEffect(heat, viewMode, analysis', metrics, dpr)
  /\ UNCHANGED <<preview, reading, imageFile, imageBase64, workingImageBase64,
                 isLoadingSafeImage, isApplyingTargetedFix, isLoadingChecklist,
                 error, selectedHazardId, hoveredHazardId, safeVersionImageUrl,
                 viewMode, fixCall, reportCall, syncVars, layoutVars, overlay,
                 overlayProps, dpr, lastEvent, maskVars>>

\* generateContent rejects, or analyzeImage throws its invalid-format error:
\* setError(e.message || ...), and finally setIsAnalyzing(false).
AnalyzeReject(message) ==
  /\ analyzeCall # NoCall
  /\ error' = IF message = "" THEN UnknownAnalysisError ELSE message
  /\ isAnalyzing' = FALSE
  /\ analyzeCall' = NoCall
  /\ UNCHANGED <<preview, reading, imageFile, imageBase64, workingImageBase64,
                 analysis, isLoadingSafeImage, isApplyingTargetedFix,
                 isLoadingChecklist, selectedHazardId, hoveredHazardId,
                 safeVersionImageUrl, viewMode, fixCall, reportCall,
                 analysisSource, syncPasses, syncVars, layoutVars, renderVars,
                 maskVars>>

\* HazardCard onMouseEnter: onHover(hazard.id).
CardEnter(id) ==
  /\ analysis # JsNull
  /\ id \in IdSet(analysis.hazards)
  /\ hoveredHazardId' = id
  /\ UNCHANGED <<preview, reading, imageFile, imageBase64, workingImageBase64,
                 analysis, isAnalyzing, isLoadingSafeImage,
                 isApplyingTargetedFix, isLoadingChecklist, error,
                 selectedHazardId, safeVersionImageUrl, viewMode, analyzeCall,
                 fixCall, reportCall, analysisSource, syncPasses, syncVars,
                 layoutVars, renderVars, maskVars>>

\* HazardCard onMouseLeave: onHover(null).
CardLeave(id) ==
  /\ analysis # JsNull
  /\ id \in IdSet(analysis.hazards)
  /\ hoveredHazardId' = "null"
  /\ UNCHANGED <<preview, reading, imageFile, imageBase64, workingImageBase64,
                 analysis, isAnalyzing, isLoadingSafeImage,
                 isApplyingTargetedFix, isLoadingChecklist, error,
                 selectedHazardId, safeVersionImageUrl, viewMode, analyzeCall,
                 fixCall, reportCall, analysisSource, syncPasses, syncVars,
                 layoutVars, renderVars, maskVars>>

\* HazardCard onClick: onSelect(hazard.id).
CardClick(id) ==
  /\ analysis # JsNull
  /\ id \in IdSet(analysis.hazards)
  /\ selectedHazardId' = id
  /\ UNCHANGED <<preview, reading, imageFile, imageBase64, workingImageBase64,
                 analysis, isAnalyzing, isLoadingSafeImage,
                 isApplyingTargetedFix, isLoadingChecklist, error,
                 hoveredHazardId, safeVersionImageUrl, viewMode, analyzeCall,
                 fixCall, reportCall, analysisSource, syncPasses, syncVars,
                 layoutVars, renderVars, maskVars>>

\* handleTargetedFix(hazard) up to img.src = ...: the error, the busy flag and
\* the pending call it leaves.
handleTargetedFix(hazard) ==
  IF NothingToEdit
  THEN [error |-> error, isApplyingTargetedFix |-> isApplyingTargetedFix,
        fixCall |-> fixCall]
  ELSE IF FindRegion(analysis.regions, hazard.id) = Undefined
  THEN [error |-> NoRegionFound, isApplyingTargetedFix |-> isApplyingTargetedFix,
        fixCall |-> fixCall]
  ELSE [error |-> "null", isApplyingTargetedFix |-> TRUE,
        fixCall |-> [stage |-> "loading",
                     region |-> FindRegion(analysis.regions, hazard.id),
                     hazard |-> hazard, image |-> workingImageBase64,
                     type |-> imageFile, analysis |-> analysis,
                     source |-> analysisSource]]

\* The targeted-fix button, rendered on the selected card and disabled while
\* isLoading or without a region: handleTargetedFix(hazard).  The click also
\* reaches the card's onClick.
TargetedFix(i) ==
  /\ analysis # JsNull
  /\ i \in 1..Len(analysis.hazards)
  /\ selectedHazardId = analysis.hazards[i].id
  /\ ~(isAnalyzing \/ isApplyingTargetedFix)
  /\ FindRegion(analysis.regions, analysis.hazards[i].id) # Undefined
  /\ selectedHazardId' = analysis.hazards[i].id
  /\ error' = handleTargetedFix(analysis.hazards[i]).error
  /\ isApplyingTargetedFix' = handleTargetedFix(analysis.hazards[i]).isApplyingTargetedFix
  /\ fixCall' = handleTargetedFix(analysis.hazards[i]).fixCall
  /\ UNCHANGED <<preview, reading, imageFile, imageBase64, workingImageBase64,
                 analysis, isAnalyzing, isLoadingSafeImage, isLoadingChecklist,
                 hoveredHazardId, safeVersionImageUrl, viewMode, analyzeCall,
                 reportCall, analysisSource, syncPasses, syncVars, layoutVars,
                 renderVars, maskVars>>

\* img.onload: createMaskFromRegion at the image's natural size, then
\* applyTargetedFix up to its await; a mask that throws goes to catch and finally.
FixImageLoad ==
  LET made == createMaskFromRegion(fixCall.region, Num(LoadedSize.width), Num(LoadedSize.height))
  IN
  /\ fixCall.stage = "loading"
  /\ maskArgs' = [region |-> fixCall.region, width |-> LoadedSize.width, height |-> LoadedSize.height]
  /\ mask' = made
  /\ error' = IF made = Raised THEN MaskError ELSE error
  /\ isApplyingTargetedFix' = (made # Raised)
  /\ fixCall' = IF made = Raised THEN NoCall ELSE [fixCall EXCEPT !.stage = "applying"]
  /\ UNCHANGED <<preview, reading, imageFile, imageBase64, workingImageBase64,
                 analysis, isAnalyzing, isLoadingSafeImage, isLoadingChecklist,
                 selectedHazardId, hoveredHazardId, safeVersionImageUrl,
                 viewMode, analyzeCall, reportCall, analysisSource, syncPasses,
                 syncVars, layoutVars, renderVars>>

\* Mutant: img.onerror without setIsApplyingTargetedFix(false).
FixImageErrorStaysBusy ==
  /\ fixCall.stage = "loading"
  /\ error' = ImageLoadError
  /\ fixCall' = NoCall
  /\ UNCHANGED <<isApplyingTargetedFix, preview, reading, imageFile, imageBase64, workingImageBase64,
                 analysis, isAnalyzing, isLoadingSafeImage, isLoadingChecklist,
                 selectedHazardId, hoveredHazardId, safeVersionImageUrl,
                 viewMode, analyzeCall, reportCall, analysisSource, syncPasses,
                 syncVars, layoutVars, renderVars, maskVars>>

\* img.onerror.
FixImageError ==
  /\ fixCall.stage = "loading"
  /\ error' = ImageLoadError
  /\ isApplyingTargetedFix' = FALSE
  /\ fixCall' = NoCall
  /\ UNCHANGED <<preview, reading, imageFile, imageBase64, workingImageBase64,
                 analysis, isAnalyzing, isLoadingSafeImage, isLoadingChecklist,
                 selectedHazardId, hoveredHazardId, safeVersionImageUrl,
                 viewMode, analyzeCall, reportCall, analysisSource, syncPasses,
                 syncVars, layoutVars, renderVars, maskVars>>

\* applyTargetedFix resolves with the edited image: setWorkingImageBase64, and
\* finally setIsApplyingTargetedFix(false).
FixResolve ==
  /\ fixCall.stage = "applying"
  /\ workingImageBase64' = Edited(fixCall.image)
  /\ isApplyingTargetedFix' = FALSE
  /\ fixCall' = NoCall
  /\ UNCHANGED <<preview, reading, imageFile, imageBase64, analysis,
                 isAnalyzing, isLoadingSafeImage, isLoadingChecklist, error,
                 selectedHazardId, hoveredHazardId, safeVersionImageUrl,
                 viewMode, analyzeCall, reportCall, analysisSource, syncPasses,
                 syncVars, layoutVars, renderVars, maskVars>>

\* applyTargetedFix rejects, or throws for a response without an image.
FixReject(message) ==
  /\ fixCall.stage = "applying"
  /\ error' = IF message = "" THEN FixFailed ELSE message
  /\ isApplyingTargetedFix' = FALSE
  /\ fixCall' = NoCall
  /\ UNCHANGED <<preview, reading, imageFile, imageBase64, workingImageBase64,
                 analysis, isAnalyzing, isLoadingSafeImage, isLoadingChecklist,
                 selectedHazardId, hoveredHazardId, safeVersionImageUrl,
                 viewMode, analyzeCall, reportCall, analysisSource, syncPasses,
                 syncVars, layoutVars, renderVars, maskVars>>

\* The Regions and Heatmap buttons, rendered while there is an analysis.
SetViewMode(mode) ==
  /\ analysis # JsNull
  /\ viewMode' = mode
  /\ heat' = heatmapEffect(heat, mode, analysis, metrics, dpr)
  /\ UNCHANGED <<preview, reading, imageFile, imageBase64, workingImageBase64,
                 analysis, isAnalyzing, isLoadingSafeImage,
                 isApplyingTargetedFix, isLoadingChecklist, error,
                 selectedHazardId, hoveredHazardId, safeVersionImageUrl,
                 analyzeCall, fixCall, reportCall, analysisSource, syncPasses,
                 syncVars, layoutVars, overlay, overlayProps, dpr, lastEvent,
                 maskVars>>

\* ErrorDisplay's close button, rendered while there is a message.
ErrorClose ==
  /\ error # "null"
  /\ error' = "null"
  /\ UNCHANGED <<preview, reading, imageFile, imageBase64, workingImageBase64,
                 analysis, isAnalyzing, isLoadingSafeImage,
                 isApplyingTargetedFix, isLoadingChecklist, selectedHazardId,
                 hoveredHazardId, safeVersionImageUrl, viewMode, analyzeCall,
                 fixCall, reportCall, analysisSource, syncPasses, syncVars,
                 layoutVars, renderVars, maskVars>>

\* handleGenerateSafeVersion up to its await; ActionButtons is rendered while
\* there is an analysis, its buttons disabled while either call is pending.
GenerateSafeVersion ==
  /\ analysis # JsNull
  /\ ~(isLoadingSafeImage \/ isLoadingChecklist)
  /\ isLoadingSafeImage' = IF NothingToEdit THEN isLoadingSafeImage ELSE TRUE
  /\ safeVersionImageUrl' = IF NothingToEdit THEN safeVersionImageUrl ELSE "null"
  /\ error' = IF NothingToEdit THEN error ELSE "null"
  /\ reportCall' = IF NothingToEdit THEN reportCall ELSE [stage |-> "safe image"]
  /\ UNCHANGED <<preview, reading, imageFile, imageBase64, workingImageBase64,
                 analysis, isAnalyzing, isApplyingTargetedFix,
                 isLoadingChecklist, selectedHazardId, hoveredHazardId,
                 viewMode, analyzeCall, fixCall, analysisSource, syncPasses,
                 syncVars, layoutVars, renderVars, maskVars>>

\* generateSafeImage resolves.
SafeResolve ==
  /\ reportCall.stage = "safe image"
  /\ safeVersionImageUrl' = "safe"
  /\ isLoadingSafeImage' = FALSE
  /\ reportCall' = NoCall
  /\ UNCHANGED <<preview, reading, imageFile, imageBase64, workingImageBase64,
                 analysis, isAnalyzing, isApplyingTargetedFix,
                 isLoadingChecklist, error, selectedHazardId, hoveredHazardId,
                 viewMode, analyzeCall, fixCall, analysisSource, syncPasses,
                 syncVars, layoutVars, renderVars, maskVars>>

\* generateSafeImage rejects.
SafeReject(message) ==
  /\ reportCall.stage = "safe image"
  /\ error' = IF message = "" THEN SafeFailed ELSE message
  /\ isLoadingSafeImage' = FALSE
  /\ reportCall' = NoCall
  /\ UNCHANGED <<preview, reading, imageFile, imageBase64, workingImageBase64,
                 analysis, isAnalyzing, isApplyingTargetedFix,
                 isLoadingChecklist, selectedHazardId, hoveredHazardId,
                 safeVersionImageUrl, viewMode, analyzeCall, fixCall,
                 analysisSource, syncPasses, syncVars, layoutVars, renderVars,
                 maskVars>>

\* handleGenerateChecklist up to its await.
GenerateChecklist ==
  /\ analysis # JsNull
  /\ ~(isLoadingSafeImage \/ isLoadingChecklist)
  /\ isLoadingChecklist' = TRUE
  /\ error' = "null"
  /\ reportCall' = [stage |-> "checklist"]
  /\ UNCHANGED <<preview, reading, imageFile, imageBase64, workingImageBase64,
                 analysis, isAnalyzing, isLoadingSafeImage,
                 isApplyingTargetedFix, selectedHazardId, hoveredHazardId,
                 safeVersionImageUrl, viewMode, analyzeCall, fixCall,
                 analysisSource, syncPasses, syncVars, layoutVars, renderVars,
                 maskVars>>

\* generateChecklist resolves: the checklist goes to a window of its own.
ChecklistResolve ==
  /\ reportCall.stage = "checklist"
  /\ isLoadingChecklist' = FALSE
  /\ reportCall' = NoCall
  /\ UNCHANGED <<preview, reading, imageFile, imageBase64, workingImageBase64,
                 analysis, isAnalyzing, isLoadingSafeImage,
                 isApplyingTargetedFix, error, selectedHazardId,
                 hoveredHazardId, safeVersionImageUrl, viewMode, analyzeCall,
                 fixCall, analysisSource, syncPasses, syncVars, layoutVars,
                 renderVars, maskVars>>

\* generateChecklist rejects.
ChecklistReject(message) ==
  /\ reportCall.stage = "checklist"
  /\ error' = IF message = "" THEN ChecklistFailed ELSE message
  /\ isLoadingChecklist' = FALSE
  /\ reportCall' = NoCall
  /\ UNCHANGED <<preview, reading, imageFile, imageBase64, workingImageBase64,
                 analysis, isAnalyzing, isLoadingSafeImage,
                 isApplyingTargetedFix, selectedHazardId, hoveredHazardId,
                 safeVersionImageUrl, viewMode, analyzeCall, fixCall,
                 analysisSource, syncPasses, syncVars, layoutVars, renderVars,
                 maskVars>>

AppInit == AppIdle /\ SyncIdle /\ LayoutIdle /\ RenderIdle /\ MaskIdle

AppNext ==
  \/ \E f \in Files : PickFile(f)
  \/ \E f \in Files, ok \in BOOLEAN : ReadEnd(f, ok)
  \/ Analyze
  \/ \E r \in AppResponses : AnalyzeResolve(r)
  \/ \E message \in ExternalErrors \cup {InvalidFormat} : AnalyzeReject(message)
  \/ \E id \in HazardIds : CardEnter(id)
  \/ \E id \in HazardIds : CardLeave(id)
  \/ \E id \in HazardIds : CardClick(id)
  \/ \E i \in 1..MaxLen : TargetedFix(i)
  \/ FixImageLoad
  \/ FixImageError
  \/ FixResolve
  \/ \E message \in ExternalErrors \cup {NoImageReturned} : FixReject(message)
  \/ \E mode \in {"regions", "heatmap"} : SetViewMode(mode)
  \/ ErrorClose
  \/ GenerateSafeVersion
  \/ SafeResolve
  \/ \E message \in ExternalErrors : SafeReject(message)
  \/ GenerateChecklist
  \/ ChecklistResolve
  \/ \E message \in ExternalErrors : ChecklistReject(message)

SpecApp == AppInit /\ [][AppNext]_vars

(***************************************************************************)
(* The overlay on every analysis and layout.                               *)
(***************************************************************************)
WithId(region, id) == [region EXCEPT !.id = id]
Tenth(n) == Over(Num(n), Num(10))

\* A rect whose coordinates are no dyadic fractions: 0.1, 0.2, 0.7, 0.3.
TenthRect(id) == Rect(id, Tenth(1), Tenth(2), Tenth(7), Tenth(3))

\* A rect whose four numbers lie in [0, 1] and whose right and lower edges do
\* not: 0.5, 0.5, 0.75, 0.75.
OverhangingRect(id) == Rect(id, Dyadic(1, 1), Dyadic(1, 1), Dyadic(3, 2), Dyadic(3, 2))

WellFormedGeometries ==
  {QuarterRect("H1"), Triangle("H1"), TenthRect("H1"), OverhangingRect("H1")}

\* Regions the schema does not allow: an unknown shape, a rect without one of
\* its numbers (left out, or null), a poly without points.
MalformedGeometries ==
  {[QuarterRect("H1") EXCEPT !.shape = "circle"],
   [QuarterRect("H1") EXCEPT !.x = Undefined],
   [QuarterRect("H1") EXCEPT !.y = Undefined],
   [QuarterRect("H1") EXCEPT !.w = Undefined],
   [QuarterRect("H1") EXCEPT !.h = JsNull],
   [Triangle("H1") EXCEPT !.points = Undefined],
   [Triangle("H1") EXCEPT !.points = JsNull]}

\* A poly one of whose vertices is null.
BrokenVertex ==
  Poly("H1", <<Array(<<Dyadic(1, 2), Dyadic(1, 2)>>), JsNull,
               Array(<<Dyadic(1, 1), Dyadic(3, 2)>>)>>)

RenderGeometries == WellFormedGeometries \cup MalformedGeometries \cup {BrokenVertex}

\* The severities of the hazards, by position: the three levels, none, and an
\* unknown one.
SeverityNames == <<"HIGH", "LOW", "MEDIUM", "undefined", "CRITICAL">>

\* Synchronized analyses: the i-th region and the i-th hazard share the i-th id.
SeverityLists ==
  {SeverityNames,
   <<"MEDIUM", "undefined", "HIGH", "LOW", "CRITICAL">>,
   <<"CRITICAL", "HIGH", "undefined", "MEDIUM", "LOW">>}

RenderAnalyses ==
  {[hazards |-> [i \in 1..Len(q) |-> Hazard(IdNames[i], names[i])],
    regions |-> [i \in 1..Len(q) |-> WithId(q[i], IdNames[i])]] :
     q \in SeqsUpTo(RenderGeometries, MaxLen), names \in SeverityLists}

Box(w, h) == [width |-> Num(w), height |-> Num(h)]
Image(w, h) == [naturalWidth |-> Num(w), naturalHeight |-> Num(h)]

\* Containers and images: a 200 x 200 and a 400 x 300 draw area, one whose
\* drawn width is no integer, and a container without width.
RenderLayouts ==
  {[rect |-> Box(200, 200), img |-> Image(400, 400)],
   [rect |-> Box(400, 300), img |-> Image(800, 600)],
   [rect |-> Box(29, 100), img |-> Image(7, 1)],
   [rect |-> Box(0, 200), img |-> Image(4, 4)]}

\* ImageDisplay renders with its analysis prop and its metrics.
Render ==
  /\ overlay = NotYet
  /\ overlay' = Overlay(analysis, metrics)
  /\ overlayProps' = OverlayProps(analysis, overlay', selectedHazardId, hoveredHazardId)
  /\ UNCHANGED <<heat, dpr, lastEvent, syncVars, layoutVars, appVars, maskVars>>

RenderInit ==
  /\ \E l \in RenderLayouts :
       /\ rect = l.rect
       /\ img = l.img
       /\ metrics = computeMetrics(InitialMetrics, l.rect, l.img)
  /\ rafPending = 0
  /\ analysis \in RenderAnalyses
  /\ analysisSource = [hazards |-> Array(analysis.hazards),
                       regions |-> Array(analysis.regions)]
  /\ syncPasses = 1
  /\ AppShell
  /\ selectedHazardId \in {"null"} \cup IdSet(analysis.hazards)
  /\ hoveredHazardId \in {"null"} \cup IdSet(analysis.hazards)
  /\ viewMode = "regions"
  /\ RenderIdle
  /\ SyncIdle
  /\ MaskIdle

RenderNext == Render

SpecRender == RenderInit /\ [][RenderNext]_vars

(***************************************************************************)
(* Pointer events on the overlay and on the hazard cards.                  *)
(***************************************************************************)
\* onMouseEnter: () => onHover(region.id), the new hoveredHazardId.
shapeOnMouseEnter(id) == id

\* Mutant: the leave handler hovering its own shape.
shapeOnMouseLeaveSelf(id) == id

\* onMouseLeave: () => onHover(null)
shapeOnMouseLeave(id) == "null"

\* Mutant: the click handler without e.stopPropagation().
shapeOnClickPropagating(id) == [selected |-> id, propagates |-> TRUE]

\* onClick: e.stopPropagation(); onSelect(region.id)
shapeOnClick(id) == [selected |-> id, propagates |-> FALSE]

\* Mutant: the svg's click handler leaving the selection.
svgOnClickKeeping(selected) == selected

\* The svg's onClick={() => onHazardSelect(null)}: the new selectedHazardId.
svgOnClick(selected) == "null"

\* Whether RegionShape returns an element does not depend on the scale.
HasElement(region) == ShapeOf(region, Zero, Zero) \notin {NoDrawable, Raised}

\* The svg is rendered, and none of its children throws.
OverlayShown ==
  /\ analysis # JsNull
  /\ Lt(Zero, metrics.drawW)
  /\ \A j \in 1..Len(analysis.regions) : ShapeOf(analysis.regions[j], Zero, Zero) # Raised

\* The i-th region has an element in the svg.
ShapeShown(i) ==
  /\ OverlayShown
  /\ i \in 1..Len(analysis.regions)
  /\ HasElement(analysis.regions[i])

\* RegionShape onMouseEnter.
ShapeEnter(i) ==
  /\ ShapeShown(i)
  /\ hoveredHazardId' = shapeOnMouseEnter(analysis.regions[i].id)
  /\ lastEvent' = [kind |-> "enter", id |-> analysis.regions[i].id,
      selectedBefore |-> selectedHazardId, hoveredBefore |-> hoveredHazardId]
  /\ UNCHANGED <<preview, reading, imageFile, imageBase64, workingImageBase64,
                 analysis, isAnalyzing, isLoadingSafeImage,
                 isApplyingTargetedFix, isLoadingChecklist, error,
                 selectedHazardId, safeVersionImageUrl, viewMode, analyzeCall,
                 fixCall, reportCall, analysisSource, syncPasses, overlay,
                 overlayProps, heat, dpr, syncVars, layoutVars, maskVars>>

\* RegionShape onMouseLeave.
ShapeLeave(i) ==
  /\ ShapeShown(i)
  /\ hoveredHazardId' = shapeOnMouseLeave(analysis.regions[i].id)
  /\ lastEvent' = [kind |-> "leave", id |-> analysis.regions[i].id,
      selectedBefore |-> selectedHazardId, hoveredBefore |-> hoveredHazardId]
  /\ UNCHANGED <<preview, reading, imageFile, imageBase64, workingImageBase64,
                 analysis, isAnalyzing, isLoadingSafeImage,
                 isApplyingTargetedFix, isLoadingChecklist, error,
                 selectedHazardId, safeVersionImageUrl, viewMode, analyzeCall,
                 fixCall, reportCall, analysisSource, syncPasses, overlay,
                 overlayProps, heat, dpr, syncVars, layoutVars, maskVars>>

\* A click on the i-th shape: its onClick, and the svg's onClick after it when the
\* event propagates.
ShapeClick(i) ==
  LET clicked == shapeOnClick(analysis.regions[i].id)
  IN
  /\ ShapeShown(i)
  /\ selectedHazardId' = IF clicked.propagates THEN svgOnClick(clicked.selected) ELSE clicked.selected
  /\ lastEvent' = [kind |-> "shape click", id |-> analysis.regions[i].id,
      selectedBefore |-> selectedHazardId, hoveredBefore |-> hoveredHazardId]
  /\ UNCHANGED <<preview, reading, imageFile, imageBase64, workingImageBase64,
                 analysis, isAnalyzing, isLoadingSafeImage,
                 isApplyingTargetedFix, isLoadingChecklist, error,
                 hoveredHazardId, safeVersionImageUrl, viewMode, analyzeCall,
                 fixCall, reportCall, analysisSource, syncPasses, overlay,
                 overlayProps, heat, dpr, syncVars, layoutVars, maskVars>>

\* A click on the svg beside every shape: the svg's onClick.
BackgroundClick ==
  /\ OverlayShown
  /\ selectedHazardId' = svgOnClick(selectedHazardId)
  /\ lastEvent' = [kind |-> "background click", id |-> "null",
      selectedBefore |-> selectedHazardId, hoveredBefore |-> hoveredHazardId]
  /\ UNCHANGED <<preview, reading, imageFile, imageBase64, workingImageBase64,
                 analysis, isAnalyzing, isLoadingSafeImage,
                 isApplyingTargetedFix, isLoadingChecklist, error,
                 hoveredHazardId, safeVersionImageUrl, viewMode, analyzeCall,
                 fixCall, reportCall, analysisSource, syncPasses, overlay,
                 overlayProps, heat, dpr, syncVars, layoutVars, maskVars>>

InteractGeometries ==
  {QuarterRect("H1"), Triangle("H1"), [QuarterRect("H1") EXCEPT !.shape = "circle"]}

InteractAnalyses ==
  {[hazards |-> [i \in 1..Len(q) |-> Hazard(IdNames[i], SeverityNames[i])],
    regions |-> [i \in 1..Len(q) |-> WithId(q[i], IdNames[i])]] :
     q \in SeqsUpTo(InteractGeometries, MaxLen)}

\* ImageDisplay and AnalysisDisplay with an analysis, the image laid out.
InteractInit ==
  /\ rect = Box(200, 200)
  /\ img = Image(400, 400)
  /\ metrics = computeMetrics(InitialMetrics, rect, img)
  /\ rafPending = 0
  /\ analysis \in InteractAnalyses
  /\ analysisSource = [hazards |-> Array(analysis.hazards),
                       regions |-> Array(analysis.regions)]
  /\ syncPasses = 1
  /\ AppRest
  /\ RenderIdle
  /\ SyncIdle
  /\ MaskIdle

InteractNext ==
  \/ \E i \in 1..MaxLen : ShapeEnter(i)
  \/ \E i \in 1..MaxLen : ShapeLeave(i)
  \/ \E i \in 1..MaxLen : ShapeClick(i)
  \/ BackgroundClick
  \/ \E id \in HazardIds : CardEnter(id)
  \/ \E id \in HazardIds : CardLeave(id)
  \/ \E id \in HazardIds : CardClick(id)

SpecInteract == InteractInit /\ [][InteractNext]_vars

(***************************************************************************)
(* The heatmap: App with an image picked and laid out, whose analysis,     *)
(* view mode and container change.                                         *)
(***************************************************************************)
\* What the external analysis returns: the three levels on regions of three
\* sizes, listed in another order than the hazards; one level on two sizes; a
\* hazard without severity; a hazard of an unknown severity; a hazard whose
\* region has no centre; no hazard at all.
HeatResponses ==
  {[hazards |-> Array(<<Hazard("H1", "HIGH"), Hazard("H2", "MEDIUM"), Hazard("H3", "LOW")>>),
    regions |-> Array(<<TenthRect("H3"), QuarterRect("H1"), Triangle("H2")>>)],
   [hazards |-> Array(<<Hazard("H1", "LOW"), Hazard("H2", "LOW")>>),
    regions |-> Array(<<QuarterRect("H1"), TenthRect("H2")>>)],
   [hazards |-> Array(<<Hazard("H1", "undefined"), Hazard("H2", "HIGH")>>),
    regions |-> Array(<<QuarterRect("H1"), TenthRect("H2")>>)],
   [hazards |-> Array(<<Hazard("H1", "CRITICAL"), Hazard("H2", "HIGH")>>),
    regions |-> Array(<<QuarterRect("H1"), TenthRect("H2")>>)],
   [hazards |-> Array(<<Hazard("H1", "HIGH"), Hazard("H2", "MEDIUM")>>),
    regions |-> Array(<<[QuarterRect("H1") EXCEPT !.shape = "circle"], Triangle("H2")>>)],
   [hazards |-> Array(<<>>), regions |-> Array(<<>>)]}

\* The container's widths, one of them none; its height; window.devicePixelRatio.
HeatWidths == {Zero, Num(200), Num(300)}
HeatHeight == Num(200)
HeatRatios == {Num(1), Num(2)}

\* A file was picked and read, its image (400 x 300) loaded and laid out in a
\* container of 200 x 200; the effect ran at mount and returned at its guard.
HeatInit ==
  /\ preview = "A"
  /\ reading = {}
  /\ imageFile = "A"
  /\ imageBase64 = "A"
  /\ workingImageBase64 = "A"
  /\ isAnalyzing = FALSE
  /\ isLoadingSafeImage = FALSE
  /\ isApplyingTargetedFix = FALSE
  /\ isLoadingChecklist = FALSE
  /\ error = "null"
  /\ safeVersionImageUrl = "null"
  /\ analyzeCall = NoCall
  /\ fixCall = NoCall
  /\ reportCall = NoCall
  /\ selectedHazardId = "null"
  /\ hoveredHazardId = "null"
  /\ viewMode = "regions"
  /\ analysis = JsNull
  /\ analysisSource = Undefined
  /\ syncPasses = 0
  /\ rect = [width |-> Num(200), height |-> HeatHeight]
  /\ img = Image(400, 300)
  /\ metrics = computeMetrics(InitialMetrics, rect, img)
  /\ rafPending = 0
  /\ overlay = NotYet
  /\ overlayProps = NotYet
  /\ heat = BlankCanvas
  /\ dpr \in HeatRatios
  /\ lastEvent = NotYet
  /\ SyncIdle
  /\ MaskIdle

HeatNext ==
  \/ \E f \in Files : PickFile(f)
  \/ \E f \in Files : ReadEnd(f, TRUE)
  \/ Analyze
  \/ \E r \in HeatResponses : AnalyzeResolve(r)
  \/ \E message \in ExternalErrors : AnalyzeReject(message)
  \/ \E mode \in {"regions", "heatmap"} : SetViewMode(mode)
  \/ \E w \in HeatWidths : ContainerResize(w, HeatHeight)

SpecHeat == HeatInit /\ [][HeatNext]_vars

(***************************************************************************)
(* A session: images are picked and analysed while the pointer moves over  *)
(* the shapes and the cards.                                               *)
(***************************************************************************)
\* A file was picked and read, its image loaded and laid out.
SessionInit == HeatInit /\ dpr = Num(1)

SessionNext ==
  \/ \E f \in Files : PickFile(f)
  \/ \E f \in Files, ok \in BOOLEAN : ReadEnd(f, ok)
  \/ Analyze
  \/ \E r \in AppResponses : AnalyzeResolve(r)
  \/ \E message \in ExternalErrors : AnalyzeReject(message)
  \/ \E id \in HazardIds : CardEnter(id)
  \/ \E id \in HazardIds : CardLeave(id)
  \/ \E id \in HazardIds : CardClick(id)
  \/ \E i \in 1..MaxLen : ShapeEnter(i)
  \/ \E i \in 1..MaxLen : ShapeLeave(i)
  \/ \E i \in 1..MaxLen : ShapeClick(i)
  \/ BackgroundClick

SpecSession == SessionInit /\ [][SessionNext]_vars

(***************************************************************************)
(* The busy flags: images are picked, analysed and fixed, and every call   *)
(* that was started comes back.                                            *)
(***************************************************************************)
AnalyzeSettles ==
  \/ \E r \in AppResponses : AnalyzeResolve(r)
  \/ \E message \in ExternalErrors \cup {InvalidFormat} : AnalyzeReject(message)

MaskImageSettles == FixImageError \/ FixImageLoad

FixSettles ==
  \/ FixResolve
  \/ \E message \in ExternalErrors \cup {NoImageReturned} : FixReject(message)

BusyNext ==
  \/ \E f \in Files : PickFile(f)
  \/ \E f \in Files, ok \in BOOLEAN : ReadEnd(f, ok)
  \/ Analyze
  \/ \E r \in AppResponses : AnalyzeResolve(r)
  \/ \E message \in ExternalErrors \cup {InvalidFormat} : AnalyzeReject(message)
  \/ \E id \in HazardIds : CardClick(id)
  \/ \E i \in 1..MaxLen : TargetedFix(i)
  \/ FixImageLoad
  \/ FixImageError
  \/ FixResolve
  \/ \E message \in ExternalErrors \cup {NoImageReturned} : FixReject(message)
  \/ ErrorClose

\* The external calls resolve or reject, and the mask image fires load or error.
SpecBusy ==
  /\ AppInit
  /\ [][BusyNext]_vars
  /\ WF_vars(AnalyzeSettles)
  /\ WF_vars(MaskImageSettles)
  /\ WF_vars(FixSettles)

(***************************************************************************)
(* createMaskFromRegion on every region and raster size.                   *)
(***************************************************************************)
MaxRaster == 4

MaskRegions ==
  WellFormedGeometries \cup MalformedGeometries
    \cup {[QuarterRect("H1") EXCEPT !.x = JsNull], Poly("H1", <<>>)}

\* The example's raster, and every raster of up to MaxRaster pixels a side.
ExampleSize == [width |-> 400, height |-> 300]
RasterSizes == [width : 1..MaxRaster, height : 1..MaxRaster] \cup {ExampleSize}

CreateMask ==
  /\ mask = NotYet
  /\ mask' = createMaskFromRegion(maskArgs.region, Num(maskArgs.width),
                                  Num(maskArgs.height))
  /\ UNCHANGED <<maskArgs, syncVars, layoutVars, appVars, renderVars>>

MaskInit ==
  /\ \E region \in MaskRegions, size \in RasterSizes :
       maskArgs = [region |-> region, width |-> size.width, height |-> size.height]
  /\ mask = NotYet
  /\ SyncIdle
  /\ LayoutIdle
  /\ AppIdle
  /\ RenderIdle

MaskNext == CreateMask

SpecMask == MaskInit /\ [][MaskNext]_vars

(***************************************************************************)
(* Claims about the synchronizer.                                          *)
(***************************************************************************)
\* The positions of list whose element has the id of an element of other.
Matching(list, other) ==
  {j \in 1..Len(list) : \E k \in 1..Len(other) : other[k].id = list[j].id}

\* out is list cut down to the positions idx, in list's order.
IsRestriction(out, list, idx) ==
  /\ Len(out) = Cardinality(idx)
  /\ \A i \in 1..Len(out) :
       out[i] = list[CHOOSE j \in idx : Cardinality({k \in idx : k < j}) = i - 1]

HasDuplicateId(list) ==
  \E i, j \in 1..Len(list) : i < j /\ list[i].id = list[j].id

\* C1: the returned hazards are exactly the received hazards whose id is the id
\* of a received region, in their order, and the returned regions exactly the
\* received regions whose id is the id of a received hazard, in their order.
C1_SyncFilters ==
  synced # NotYet =>
    LET H == OrEmpty(response.hazards)
        R == OrEmpty(response.regions)
    IN  /\ IsRestriction(synced.hazards, H, Matching(H, R))
        /\ IsRestriction(synced.regions, R, Matching(R, H))

\* Both lists lose an element and keep one.
C1_Witness ==
  /\ synced # NotYet
  /\ 0 < Len(synced.hazards)
  /\ Len(synced.hazards) < Len(OrEmpty(response.hazards))
  /\ 0 < Len(synced.regions)
  /\ Len(synced.regions) < Len(OrEmpty(response.regions))

\* C2: the returned hazards and regions carry the same set of ids, and both
\* lists are empty when the received lists share no id or one is absent.
C2_SameIdSets ==
  synced # NotYet =>
    LET H == OrEmpty(response.hazards)
        R == OrEmpty(response.regions)
    IN  /\ {synced.hazards[i].id : i \in 1..Len(synced.hazards)}
             = {synced.regions[i].id : i \in 1..Len(synced.regions)}
        /\ (\/ response.hazards \in {Undefined, JsNull}
            \/ response.regions \in {Undefined, JsNull}
            \/ Matching(H, R) = {})
             => synced.hazards = <<>> /\ synced.regions = <<>>

\* A response without a hazards list and with regions.
C2_Witness ==
  /\ synced # NotYet
  /\ response.hazards \in {Undefined, JsNull}
  /\ response.regions \notin {Undefined, JsNull}
  /\ response.regions.items # <<>>

\* C3: no two returned hazards share an id, and no two returned regions do.
C3_NoDuplicateIds ==
  synced # NotYet =>
    ~HasDuplicateId(synced.hazards) /\ ~HasDuplicateId(synced.regions)

\* C4: the synchronization of a synchronized pair is that pair.
C4_SyncIdempotent == resynced # NotYet => resynced = synced

\* A second pass over a result that the first pass had cut down.
C4_Witness ==
  /\ resynced # NotYet
  /\ synced.hazards # <<>>
  /\ Len(synced.hazards) < Len(OrEmpty(response.hazards))
  /\ Len(synced.regions) < Len(OrEmpty(response.regions))

(***************************************************************************)
(* Claims about App's analysis.                                            *)
(***************************************************************************)
\* an holds the hazards and regions of the parsed response r that have a
\* counterpart in the other list, in r's order.
IsSynchronizationOf(an, r) ==
  LET H == OrEmpty(r.hazards)
      R == OrEmpty(r.regions)
  IN  /\ IsRestriction(an.hazards, H, Matching(H, R))
      /\ IsRestriction(an.regions, R, Matching(R, H))

\* C5: a non-null analysis held by App is the synchronization of the response
\* it was made from, made by one pass of the synchronizer; so is the analysis a
\* pending targeted fix closed over, whose region is one of its regions; and
\* the region of every mask made is the region of such a fix.
C5_AnalysisSynchronizedOnce ==
  /\ analysis # JsNull =>
       /\ syncPasses = 1
       /\ IsSynchronizationOf(analysis, analysisSource)
  /\ fixCall # NoCall =>
       /\ IsSynchronizationOf(fixCall.analysis, fixCall.source)
       /\ \E i \in 1..Len(fixCall.analysis.regions) :
            fixCall.analysis.regions[i] = fixCall.region
  /\ mask # NotYet =>
       \E r \in AppResponses :
         \E i \in 1..Len(OrEmpty(r.regions)) :
           /\ i \in Matching(OrEmpty(r.regions), OrEmpty(r.hazards))
           /\ OrEmpty(r.regions)[i] = maskArgs.region

\* An analysis that lost a hazard to the synchronizer is still held after a
\* targeted fix replaced the working image, in heatmap mode.
C5_Witness ==
  /\ analysis # JsNull
  /\ Len(analysis.hazards) < Len(OrEmpty(analysisSource.hazards))
  /\ mask # NotYet
  /\ workingImageBase64 \in {"A*", "B*"}
  /\ viewMode = "heatmap"

(***************************************************************************)
(* Claims about the overlay.                                               *)
(***************************************************************************)
Missing(v) == v \in {Undefined, JsNull}

\* A rect with its four numbers, or a poly with vertices that are pairs.
WellFormed(region) ==
  \/ /\ region.shape = "rect"
     /\ ~Missing(region.x) /\ ~Missing(region.y)
     /\ ~Missing(region.w) /\ ~Missing(region.h)
  \/ /\ region.shape = "poly"
     /\ ~Missing(region.points)
     /\ region.points.items # <<>>
     /\ \A i \in 1..Len(region.points.items) :
          /\ ~Missing(region.points.items[i])
          /\ Len(region.points.items[i].items) = 2

\* An unknown shape, a rect without one of its numbers, a poly without points.
Malformed(region) ==
  \/ region.shape \notin {"rect", "poly"}
  \/ /\ region.shape = "rect"
     /\ Missing(region.x) \/ Missing(region.y) \/ Missing(region.w) \/ Missing(region.h)
  \/ /\ region.shape = "poly"
     /\ Missing(region.points)

SameGeometry(region, other) == WithId(region, "H1") = WithId(other, "H1")

\* The svg was rendered, with these children.
Rendered == overlay \notin {NotYet, NoOverlay, Raised}

\* C8: the drawable of a well-formed region is, for a rect, the rectangle at
\* (x*drawW, y*drawH) of size (w*drawW, h*drawH) and, for a poly, the vertices
\* (px*drawW, py*drawH) in the region's order; the rect (0.25, 0.25, 0.5, 0.5)
\* on a 200 x 200 draw area covers pixel (100, 100) and not pixel (10, 10).
C8_ShapesScaled ==
  Rendered =>
    /\ Len(overlay.shapes) = Len(analysis.regions)
    /\ \A i \in 1..Len(analysis.regions) :
         LET region == analysis.regions[i]
             shape  == overlay.shapes[i]
         IN  WellFormed(region) =>
               /\ region.shape = "rect" =>
                    /\ shape.tag = "rect"
                    /\ shape.x = Times(region.x, metrics.drawW)
                    /\ shape.y = Times(region.y, metrics.drawH)
                    /\ shape.width = Times(region.w, metrics.drawW)
                    /\ shape.height = Times(region.h, metrics.drawH)
               /\ region.shape = "poly" =>
                    /\ shape.tag = "polygon"
                    /\ Len(shape.points) = Len(region.points.items)
                    /\ \A k \in 1..Len(shape.points) :
                         shape.points[k] =
                           <<Times(region.points.items[k].items[1], metrics.drawW),
                             Times(region.points.items[k].items[2], metrics.drawH)>>
               /\ (/\ SameGeometry(region, QuarterRect("H1"))
                   /\ metrics.drawW = Num(200)
                   /\ metrics.drawH = Num(200)) =>
                    /\ shape.tag = "rect"
                    /\ RectCoverage(shape.x, shape.y, shape.width, shape.height,
                                    100, 100) = "full"
                    /\ RectCoverage(shape.x, shape.y, shape.width, shape.height,
                                    10, 10) = "none"

\* The example's rect and a triangle, rendered on the 200 x 200 draw area.
C8_Witness ==
  /\ Rendered
  /\ metrics.drawW = Num(200)
  /\ metrics.drawH = Num(200)
  /\ \E i \in 1..Len(analysis.regions) :
       SameGeometry(analysis.regions[i], QuarterRect("H1"))
  /\ \E i \in 1..Len(analysis.regions) :
       SameGeometry(analysis.regions[i], Triangle("H1"))

\* C9: when every region of the analysis is well-formed or malformed in one of
\* the three ways, rendering does not raise, a malformed region has no
\* drawable, and every well-formed region has its own.
C9_MalformedSkipped ==
  (/\ overlay \notin {NotYet, NoOverlay}
   /\ \E i \in 1..Len(analysis.regions) : Malformed(analysis.regions[i])
   /\ \A i \in 1..Len(analysis.regions) :
        Malformed(analysis.regions[i]) \/ WellFormed(analysis.regions[i])) =>
    /\ overlay # Raised
    /\ Len(overlay.shapes) = Len(analysis.regions)
    /\ \A i \in 1..Len(analysis.regions) :
         LET region == analysis.regions[i]
             shape  == overlay.shapes[i]
         IN  /\ Malformed(region) => shape = NoDrawable
             /\ WellFormed(region) =>
                  /\ shape.tag = IF region.shape = "rect" THEN "rect" ELSE "polygon"
                  /\ shape.id = region.id

\* A malformed region first and a well-formed one after it, rendered.
C9_Witness ==
  /\ Rendered
  /\ Len(analysis.regions) > 1
  /\ Malformed(analysis.regions[1])
  /\ WellFormed(analysis.regions[2])
  /\ overlay.shapes[1] = NoDrawable
  /\ overlay.shapes[2] # NoDrawable

(***************************************************************************)
(* Claims about the mask.                                                  *)
(***************************************************************************)
ExactScaled(p, width, height) ==
  <<ExactMul(p[1], Num(width)), ExactMul(p[2], Num(height))>>

\* The outline of a well-formed region scaled by (width, height), exactly.
Outline(region, width, height) ==
  IF region.shape = "rect"
  THEN LET x0 == region.x
           y0 == region.y
           x1 == ExactAdd(region.x, region.w)
           y1 == ExactAdd(region.y, region.h)
       IN  <<ExactScaled(<<x0, y0>>, width, height),
             ExactScaled(<<x1, y0>>, width, height),
             ExactScaled(<<x1, y1>>, width, height),
             ExactScaled(<<x0, y1>>, width, height)>>
  ELSE [i \in 1..Len(region.points.items) |->
          ExactScaled(region.points.items[i].items, width, height)]

\* The pixels looked at: all of a small raster, the example's two of a large one.
Pixels(width, height) ==
  IF width <= MaxRaster /\ height <= MaxRaster
  THEN (0..(width - 1)) \X (0..(height - 1))
  ELSE {<<200, 150>>, <<5, 5>>}

\* A mask was made for a well-formed region.
MaskMade == mask # NotYet /\ WellFormed(maskArgs.region)

\* C10 as stated: every pixel is white when it lies in the scaled region and
\* black when it does not.
C10_MaskTwoTone ==
  MaskMade =>
    /\ mask # Raised
    /\ \A p \in Pixels(maskArgs.width, maskArgs.height) :
         ToneAt(mask, p[1], p[2]) =
           IF PathCoverage(Outline(maskArgs.region, maskArgs.width, maskArgs.height),
                           p[1], p[2]) = "full"
           THEN "white" ELSE "black"

\* C10 amended: every pixel wholly inside the scaled region is white, every
\* pixel wholly outside it is black, and a pixel the region's boundary crosses
\* is white, black or a blend of the two; the rect (0.25, 0.25, 0.5, 0.5) at
\* 400 x 300 is white at pixel (200, 150) and black at pixel (5, 5).
C10_MaskInsideOutside ==
  MaskMade =>
    /\ mask # Raised
    /\ \A p \in Pixels(maskArgs.width, maskArgs.height) :
         LET inside == PathCoverage(Outline(maskArgs.region, maskArgs.width,
                                            maskArgs.height), p[1], p[2])
             tone   == ToneAt(mask, p[1], p[2])
         IN  /\ inside = "full" => tone = "white"
             /\ inside = "none" => tone = "black"
             /\ tone \in {"white", "black", "blend"}
    /\ (/\ SameGeometry(maskArgs.region, QuarterRect("H1"))
        /\ maskArgs.width = ExampleSize.width
        /\ maskArgs.height = ExampleSize.height) =>
         /\ ToneAt(mask, 200, 150) = "white"
         /\ ToneAt(mask, 5, 5) = "black"

\* A mask with a white pixel, a black pixel and a blended pixel.
C10_Witness ==
  /\ MaskMade
  /\ mask # Raised
  /\ \E p \in Pixels(maskArgs.width, maskArgs.height) :
       ToneAt(mask, p[1], p[2]) = "white"
  /\ \E p \in Pixels(maskArgs.width, maskArgs.height) :
       ToneAt(mask, p[1], p[2]) = "black"
  /\ \E p \in Pixels(maskArgs.width, maskArgs.height) :
       ToneAt(mask, p[1], p[2]) = "blend"

\* A region createMaskFromRegion has nothing to paint for: an unknown shape, a
\* rect without one of its numbers (left out, or null), a poly without points
\* or with no vertex.
MalformedForMask(region) ==
  \/ region.shape \notin {"rect", "poly"}
  \/ /\ region.shape = "rect"
     /\ Missing(region.x) \/ Missing(region.y) \/ Missing(region.w) \/ Missing(region.h)
  \/ /\ region.shape = "poly"
     /\ Missing(region.points) \/ region.points.items = <<>>

\* C11: the mask of an unknown or malformed region is made without raising and
\* is black at every pixel.
C11_MalformedMaskBlank ==
  (mask # NotYet /\ MalformedForMask(maskArgs.region)) =>
    /\ mask # Raised
    /\ \A p \in Pixels(maskArgs.width, maskArgs.height) :
         ToneAt(mask, p[1], p[2]) = "black"

\* The part of C11 that createMaskFromRegion does give: an unknown shape, a
\* rect with a number left out and a poly without points give a black raster.
C11_LeftOutMaskBlank ==
  (/\ mask # NotYet
   /\ \/ maskArgs.region.shape \notin {"rect", "poly"}
      \/ /\ maskArgs.region.shape = "rect"
         /\ Undefined \in {maskArgs.region.x, maskArgs.region.y,
                           maskArgs.region.w, maskArgs.region.h}
      \/ /\ maskArgs.region.shape = "poly"
         /\ Missing(maskArgs.region.points)) =>
    /\ mask # Raised
    /\ \A p \in Pixels(maskArgs.width, maskArgs.height) :
         ToneAt(mask, p[1], p[2]) = "black"

(***************************************************************************)
(* Claims about selection and hover.                                       *)
(***************************************************************************)
\* C12: a click on a shape toggles it: an unselected shape becomes selected, a
\* selected shape becomes unselected.
C12_ClickToggles ==
  [][\A i \in 1..MaxLen :
       ShapeClick(i) =>
         ((selectedHazardId' = analysis.regions[i].id)
            <=> (selectedHazardId # analysis.regions[i].id))]_vars

\* The part of C12 that the click handler does give: the clicked shape is the
\* selected one afterwards.
C12_ClickSelects ==
  [][\A i \in 1..MaxLen :
       ShapeClick(i) => selectedHazardId' = analysis.regions[i].id]_vars

\* C13: a click on the background while a shape is selected empties the
\* selection and leaves the hovered shape as it was.
C13_BackgroundClears ==
  [][(BackgroundClick /\ selectedHazardId # "null") =>
       /\ selectedHazardId' = "null"
       /\ hoveredHazardId' = hoveredHazardId]_vars

\* The background was clicked while one shape was selected and one hovered.
C13_Witness ==
  /\ lastEvent.kind = "background click"
  /\ lastEvent.selectedBefore # "null"
  /\ lastEvent.hoveredBefore # "null"
  /\ selectedHazardId = "null"
  /\ hoveredHazardId = lastEvent.hoveredBefore

\* C14: a click on a shape that was not selected leaves that shape selected:
\* the svg's handler does not run for it.
C14_ShapeClickStops ==
  [][\A i \in 1..MaxLen :
       (ShapeClick(i) /\ selectedHazardId # analysis.regions[i].id) =>
         selectedHazardId' = analysis.regions[i].id]_vars

\* A shape that was not selected was clicked and is selected.
C14_Witness ==
  /\ lastEvent.kind = "shape click"
  /\ lastEvent.selectedBefore # lastEvent.id
  /\ selectedHazardId = lastEvent.id

\* C15: pointer-enter makes the shape the hovered one, pointer-leave leaves it
\* not hovered, and neither changes the selection.
C15_HoverLeavesSelection ==
  [][\A i \in 1..MaxLen :
       /\ ShapeEnter(i) =>
            /\ hoveredHazardId' = analysis.regions[i].id
            /\ selectedHazardId' = selectedHazardId
       /\ ShapeLeave(i) =>
            /\ hoveredHazardId' # analysis.regions[i].id
            /\ selectedHazardId' = selectedHazardId]_vars

\* The pointer left a shape that was hovered and selected; it is still selected.
C15_Witness ==
  /\ lastEvent.kind = "leave"
  /\ lastEvent.hoveredBefore = lastEvent.id
  /\ lastEvent.selectedBefore = lastEvent.id
  /\ hoveredHazardId = "null"
  /\ selectedHazardId = lastEvent.id

\* An event on the j-th shape or on its hazard's card.
EventOn(j) ==
  \/ ShapeEnter(j)
  \/ ShapeLeave(j)
  \/ ShapeClick(j)
  \/ CardEnter(analysis.regions[j].id)
  \/ CardLeave(analysis.regions[j].id)
  \/ CardClick(analysis.regions[j].id)

\* C16: an event on one shape, or on its card, changes neither whether another
\* shape is hovered nor whether it is selected.
C16_ShapesIndependent ==
  [][\A i, j \in 1..MaxLen :
       (/\ i # j
        /\ i <= Len(analysis.regions)
        /\ j <= Len(analysis.regions)
        /\ EventOn(j)) =>
         /\ (hoveredHazardId' = analysis.regions[i].id)
              <=> (hoveredHazardId = analysis.regions[i].id)
         /\ (selectedHazardId' = analysis.regions[i].id)
              <=> (selectedHazardId = analysis.regions[i].id)]_vars

(***************************************************************************)
(* Claims about the style of the shapes.                                   *)
(***************************************************************************)
\* The svg's children were rendered with their props.
Styled == overlayProps \notin {NotYet, NoOverlay, Raised}

\* selected > hovered > idle
Rank(isSelected, isHovered) == IF isSelected THEN 2 ELSE IF isHovered THEN 1 ELSE 0

\* The colours of the three levels, as the interface shows them.
SeverityColour(severity) ==
  IF severity = "HIGH" THEN <<239, 68, 68>>
  ELSE IF severity = "MEDIUM" THEN <<245, 158, 11>>
  ELSE <<34, 197, 94>>

\* The stroke of every drawn shape is wider than the stroke the same shape has in
\* each lower state.
StrokeOrdered ==
  \A i \in 1..Len(analysis.regions) :
    overlayProps.props[i] # NoDrawable =>
      LET id == analysis.regions[i].id
          mine == overlayProps.props[i]
      IN  \A s, h \in BOOLEAN :
            Rank(s, h) < Rank(selectedHazardId = id, hoveredHazardId = id) =>
              Lt(commonProps(FindHazard(analysis.hazards, id), s, h).strokeWidth,
                 mine.strokeWidth)

\* The fill of every drawn shape is more opaque than the fill the same shape has
\* in each lower state.
FillOrdered ==
  \A i \in 1..Len(analysis.regions) :
    overlayProps.props[i] # NoDrawable =>
      LET id == analysis.regions[i].id
          mine == overlayProps.props[i]
      IN  \A s, h \in BOOLEAN :
            Rank(s, h) < Rank(selectedHazardId = id, hoveredHazardId = id) =>
              Lt(commonProps(FindHazard(analysis.hazards, id), s, h).fill.opacity,
                 mine.fill.opacity)

\* The stroke of a selected shape has the selection colour, that of every other
\* shape of a hazard with one of the three levels the colour of its level.
StrokeColoured ==
  \A i \in 1..Len(analysis.regions) :
    overlayProps.props[i] # NoDrawable =>
      LET id == analysis.regions[i].id
          severity == analysis.hazards[i].severity
          mine == overlayProps.props[i]
      IN  /\ selectedHazardId = id => mine.stroke = SelectionColor
          /\ (selectedHazardId # id /\ severity \in {"HIGH", "MEDIUM", "LOW"}) =>
               /\ mine.stroke.rgb = SeverityColour(severity)
               /\ mine.stroke # SelectionColor

\* C17: stroke width and fill opacity of a selected shape are greater than those
\* of a hovered unselected shape, which are greater than those of an idle shape;
\* the stroke has the severity colour exactly when the shape is not selected.
C17_StyleFollowsState == Styled => (StrokeOrdered /\ FillOrdered /\ StrokeColoured)

\* The part of C17 about the stroke alone.
C17_StrokeFollowsState == Styled => (StrokeOrdered /\ StrokeColoured)

(***************************************************************************)
(* Claims about the heatmap.                                               *)
(***************************************************************************)
Levels == {"HIGH", "MEDIUM", "LOW"}

\* The effect passes its guard in this state: what is on the canvas was painted
\* for this analysis and these metrics, unless the effect threw.
HeatShown == viewMode = "heatmap" /\ analysis # JsNull /\ metrics.drawW # Zero

\* The hazards with a region of their id, and those whose region has a centre,
\* in the order of the hazard list.
HasRegion(hz, an) == \E i \in 1..Len(an.regions) : an.regions[i].id = hz.id
Matched(an) == SelectSeq(an.hazards, LAMBDA hz : HasRegion(hz, an))
Paintable(an) ==
  SelectSeq(an.hazards,
            LAMBDA hz : HasRegion(hz, an) /\ WellFormed(FindRegion(an.regions, hz.id)))

\* 0.25, 0.18 and 0.12.
Factor(severity) ==
  IF severity = "HIGH" THEN Dyadic(1, 2)
  ELSE IF severity = "MEDIUM" THEN Over(Num(18), Num(100))
  ELSE Over(Num(12), Num(100))

Higher(a, b) ==
  \/ a = "HIGH" /\ b \in {"MEDIUM", "LOW"}
  \/ a = "MEDIUM" /\ b = "LOW"

\* The radius, in canvas pixels, of factor * drawW.
RadiusOf(factor) == Times(Times(metrics.drawW, factor), dpr)

\* C18: a hazard without severity, or with one that is no level, is no error:
\* the effect does not throw, and the hazard's gradient has the MEDIUM colour
\* and the MEDIUM radius, 0.18 * drawW.
C18_UnknownSeverityIsMedium ==
  /\ heat # Raised
  /\ HeatShown =>
       LET hz == Paintable(analysis)
       IN  /\ Len(heat.gradients) = Len(hz)
           /\ \A k \in 1..Len(hz) :
                hz[k].severity \notin Levels =>
                  /\ heat.gradients[k].rgb.items = <<245, 158, 11>>
                  /\ heat.gradients[k].radius = RadiusOf(Factor("MEDIUM"))

\* The part of C18 that the effect does give: a hazard without severity is
\* painted in the MEDIUM colour.
C18_MissingSeverityHasMediumColour ==
  (HeatShown /\ heat # Raised) =>
    LET hz == Paintable(analysis)
    IN  /\ Len(heat.gradients) = Len(hz)
        /\ \A k \in 1..Len(hz) :
             hz[k].severity = "undefined" =>
               heat.gradients[k].rgb.items = <<245, 158, 11>>

\* C18, for the region renderer: the stroke of an unselected shape whose hazard
\* has no level has the MEDIUM colour.
C18_UnknownSeverityStrokeIsMedium ==
  Styled =>
    \A i \in 1..Len(analysis.regions) :
      (/\ overlayProps.props[i] # NoDrawable
       /\ selectedHazardId # analysis.regions[i].id
       /\ analysis.hazards[i].severity \notin Levels) =>
        overlayProps.props[i].stroke.rgb = <<245, 158, 11>>

\* C19: the radius of the gradient of a HIGH, MEDIUM or LOW hazard is 0.25, 0.18
\* or 0.12 times drawW (in canvas pixels: times the pixel ratio), whatever drawH
\* and the region are; so a higher level has a greater radius, and two hazards
\* of one level have the same.
C19_RadiusByLevel ==
  (HeatShown /\ heat # Raised) =>
    LET hz == Paintable(analysis)
    IN  /\ Len(heat.gradients) = Len(hz)
        /\ \A k \in 1..Len(hz) :
             hz[k].severity \in Levels =>
               heat.gradients[k].radius = RadiusOf(Factor(hz[k].severity))
        /\ \A j, k \in 1..Len(hz) :
             /\ Higher(hz[j].severity, hz[k].severity) =>
                  Lt(heat.gradients[k].radius, heat.gradients[j].radius)
             /\ (hz[j].severity \in Levels /\ hz[j].severity = hz[k].severity) =>
                  heat.gradients[j].radius = heat.gradients[k].radius

\* The three levels painted on regions of three sizes, in a draw area that is
\* not square: three radii in the order of the levels.
C19_Witness ==
  /\ HeatShown
  /\ heat # Raised
  /\ metrics.drawW # metrics.drawH
  /\ Len(heat.gradients) = 3
  /\ <<analysis.hazards[1].severity, analysis.hazards[2].severity,
       analysis.hazards[3].severity>> = <<"HIGH", "MEDIUM", "LOW">>
  /\ Lt(heat.gradients[3].radius, heat.gradients[2].radius)
  /\ Lt(heat.gradients[2].radius, heat.gradients[1].radius)
  /\ heat.gradients[1].radius = Times(Times(metrics.drawW, Dyadic(1, 2)), dpr)

\* The canvas holds one gradient for each of the hazards given, in their order,
\* and nothing else.
HoldsExactly(hazards) ==
  /\ heat # Raised
  /\ Len(heat.gradients) = Len(hazards)
  /\ \A k \in 1..Len(hazards) :
       heat.gradients[k] = HeatOf(hazards[k], analysis, metrics, dpr)

\* The canvas holds what the claim says for the analysis of this state.
HeatFresh == HoldsExactly(IF analysis = JsNull THEN <<>> ELSE Matched(analysis))

\* A step that is one of the triggers: the analysis changes, the metrics
\* change, or the view mode becomes heatmap.
HeatTrigger ==
  \/ analysis' # analysis
  \/ metrics' # metrics
  \/ viewMode' = "heatmap" /\ viewMode # "heatmap"

\* C20: after every trigger the canvas holds exactly one gradient for each
\* hazard of the current analysis that has a region of its id, in the order of
\* the hazards, and nothing painted earlier.
C20_HeatFresh == [][HeatTrigger => HeatFresh']_vars

\* The part of C20 that the effect does give: whenever it passes its guard and
\* does not throw, the canvas holds exactly the gradients of the hazards of the
\* current analysis whose region has a centre.
C20_RepaintedHeatIsCurrent ==
  (HeatShown /\ heat # Raised) => HoldsExactly(Paintable(analysis))

(***************************************************************************)
(* Claims about the analysis and the image it belongs to.                  *)
(***************************************************************************)
\* C21: a step that changes the working image while there is an analysis leaves
\* another analysis, or none.
C21_ImageChangeReplacesAnalysis ==
  [][(workingImageBase64' # workingImageBase64 /\ analysis # JsNull) =>
       analysis' # analysis]_vars

\* The part of C21 that handleImageSelect does give: a selected image leaves no
\* analysis.
C21_SelectClearsAnalysis ==
  [][\A f \in Files, ok \in BOOLEAN : ReadEnd(f, ok) => analysis' = JsNull]_vars

\* C25: when a pending analysis resolves, the working image is the one that was
\* sent; when a pending targeted fix resolves, the working image it replaces is
\* the one that was sent.
C25_ResultsMeetTheirImage ==
  [][/\ (\E r \in AppResponses : AnalyzeResolve(r)) =>
          analyzeCall.image = workingImageBase64
     /\ FixResolve => fixCall.image = workingImageBase64]_vars

\* C26: selectedHazardId and hoveredHazardId are null or the id of a hazard of
\* the analysis; both are null without an analysis.
C26_SelectionWithinAnalysis ==
  LET ids == IF analysis = JsNull THEN {} ELSE IdSet(analysis.hazards)
  IN  /\ selectedHazardId \in {"null"} \cup ids
      /\ hoveredHazardId \in {"null"} \cup ids

\* A shape was clicked and selected, and since then the analysis was cleared and
\* the selection with it.
C26_Witness ==
  /\ lastEvent.kind = "shape click"
  /\ analysis = JsNull
  /\ selectedHazardId = "null"
  /\ hoveredHazardId = "null"

(***************************************************************************)
(* Claims about the busy flags.                                            *)
(***************************************************************************)
\* The steps that end an operation in failure leave an error message and no
\* busy flag.
FailuresLeaveMessage ==
  /\ (\E message \in ExternalErrors \cup {InvalidFormat} : AnalyzeReject(message)) =>
       error' # "null" /\ ~isAnalyzing'
  /\ FixImageError => error' = ImageLoadError /\ ~isApplyingTargetedFix'
  /\ (\E message \in ExternalErrors \cup {NoImageReturned} : FixReject(message)) =>
       error' # "null" /\ ~isApplyingTargetedFix'
  /\ (FixImageLoad /\ mask' = Raised) => error' # "null" /\ ~isApplyingTargetedFix'

\* handleTargetedFix for a hazard without a region of its id: the message, and
\* the busy flag as it was.
NoRegionLeavesMessage ==
  ~NothingToEdit =>
    \A id \in HazardIds :
      FindRegion(analysis.regions, id) = Undefined =>
        /\ handleTargetedFix(Hazard(id, "LOW")).error = NoRegionFound
        /\ handleTargetedFix(Hazard(id, "LOW")).isApplyingTargetedFix
             = isApplyingTargetedFix
        /\ handleTargetedFix(Hazard(id, "LOW")).fixCall = fixCall

\* C27: isAnalyzing and isApplyingTargetedFix, once true, become false again;
\* the failing ends leave an error message; a targeted fix for a hazard without
\* region leaves the message and does not set the flag.
C27_BusyFlagsClear ==
  /\ isAnalyzing ~> ~isAnalyzing
  /\ isApplyingTargetedFix ~> ~isApplyingTargetedFix
  /\ [][FailuresLeaveMessage]_vars
  /\ []NoRegionLeavesMessage

\* A targeted fix ended at the mask image's error, for an analysis one of whose
\* known ids has no region: the flags are down and the message is up.
C27_Witness ==
  /\ error = ImageLoadError
  /\ ~isApplyingTargetedFix
  /\ ~isAnalyzing
  /\ ~NothingToEdit
  /\ \E id \in HazardIds : FindRegion(analysis.regions, id) = Undefined

(***************************************************************************)
(* Claims about the layout events.                                         *)
(***************************************************************************)
\* Every requested frame has run, and the <img> element holds a decoded image.
LayoutSettled ==
  /\ rafPending = 0
  /\ img # JsNull
  /\ img.naturalWidth # Zero
  /\ img.naturalHeight # Zero

\* C22: once the resize, load and frame events have been processed, the metrics
\* are those of the image now displayed in the container as it now is: its
\* natural size, and the draw size and offsets computeMetrics gives for the two,
\* whatever the metrics were before.
C22_MetricsCurrent ==
  LayoutSettled =>
    /\ metrics.naturalW = img.naturalWidth
    /\ metrics.naturalH = img.naturalHeight
    /\ metrics = computeMetrics(InitialMetrics, rect, img)
    /\ \A prev \in {metrics, InitialMetrics} :
         computeMetrics(prev, rect, img) = metrics

\* The 3 x 5 image settled in the 6 x 4 container: drawn 2.4 wide and 4 high,
\* after a load and a resize.
C22_Witness ==
  /\ LayoutSettled
  /\ img = [naturalWidth |-> Num(3), naturalHeight |-> Num(5)]
  /\ rect = [width |-> Num(6), height |-> Num(4)]
  /\ metrics.drawH = Num(4)
  /\ Lt(metrics.drawW, Num(3))

\* C23: an image that fails to load gets no layout and no heatmap
\* recomputation, and the failure is put into the error value: for the
\* displayed <img> element, and for the image that sizes the mask, whose
\* operation also ends.
C23_LoadFailureSurfaced ==
  [][/\ ImageError => metrics' = metrics /\ heat' = heat /\ error' # "null"
     /\ FixImageError => /\ metrics' = metrics
                         /\ heat' = heat
                         /\ error' # "null"
                         /\ ~isApplyingTargetedFix']_vars

\* The part of C23 that holds for the displayed image: its error event leaves
\* metrics and canvas as they were, and so does every recomputation that runs
\* while the element holds no image.
C23_FailedImageKeepsLayout ==
  [][/\ ImageError => metrics' = metrics /\ heat' = heat
     /\ (img' # JsNull /\ img'.naturalWidth = Zero) =>
          metrics' = metrics /\ heat' = heat]_vars

\* The part of C23 that holds for the mask's image: img.onerror sets the
\* message, ends the operation, and leaves every handler's guard as it was
\* before the fix was started.
C23_MaskImageFailureSurfaced ==
  [][FixImageError => /\ error' = ImageLoadError
                      /\ ~isApplyingTargetedFix'
                      /\ fixCall' = NoCall
                      /\ metrics' = metrics
                      /\ heat' = heat]_vars

(***************************************************************************)
(* Claims about the drawables and the draw space.                          *)
(***************************************************************************)
UnitInterval(v) == Leq(Zero, v) /\ Leq(v, Num(1))

\* Each of the region's numbers lies in [0, 1].
Normalized(region) ==
  /\ WellFormed(region)
  /\ region.shape = "rect" =>
       /\ UnitInterval(region.x) /\ UnitInterval(region.y)
       /\ UnitInterval(region.w) /\ UnitInterval(region.h)
  /\ region.shape = "poly" =>
       \A k \in 1..Len(region.points.items) :
         /\ UnitInterval(region.points.items[k].items[1])
         /\ UnitInterval(region.points.items[k].items[2])

\* The point (px, py) lies in [0, drawW] x [0, drawH].
InDrawSpace(px, py) ==
  /\ Leq(Zero, px) /\ Leq(px, metrics.drawW)
  /\ Leq(Zero, py) /\ Leq(py, metrics.drawH)

\* The element lies in the draw space: a rect with its four corners, a polygon
\* with its vertices.
ShapeInside(shape) ==
  IF shape.tag = "rect"
  THEN /\ InDrawSpace(shape.x, shape.y)
       /\ InDrawSpace(ExactAdd(shape.x, shape.width), ExactAdd(shape.y, shape.height))
  ELSE \A k \in 1..Len(shape.points) : InDrawSpace(shape.points[k][1], shape.points[k][2])

\* C24: on a draw area of positive width and height, the drawable of every
\* region whose numbers each lie in [0, 1] lies inside [0, drawW] x [0, drawH].
C24_DrawablesInside ==
  (Rendered /\ Lt(Zero, metrics.drawH)) =>
    \A i \in 1..Len(analysis.regions) :
      Normalized(analysis.regions[i]) => ShapeInside(overlay.shapes[i])

\* The part of C24 that holds: every vertex of a polygon and the upper left
\* corner of a rect lie inside the draw space, and a rect with x + w <= 1 and
\* y + h <= 1 lies inside it up to the rounding of its products.
C24_AnchorsInside ==
  (Rendered /\ Lt(Zero, metrics.drawH)) =>
    \A i \in 1..Len(analysis.regions) :
      Normalized(analysis.regions[i]) =>
        /\ overlay.shapes[i].tag = "polygon" => ShapeInside(overlay.shapes[i])
        /\ overlay.shapes[i].tag = "rect" =>
             /\ InDrawSpace(overlay.shapes[i].x, overlay.shapes[i].y)
             /\ (/\ Leq(ExactAdd(analysis.regions[i].x, analysis.regions[i].w), Num(1))
                 /\ Leq(ExactAdd(analysis.regions[i].y, analysis.regions[i].h), Num(1))) =>
                  /\ Leq(ExactAdd(overlay.shapes[i].x, overlay.shapes[i].width),
                         ExactAdd(metrics.drawW, ExactMul(Tolerance, metrics.drawW)))
                  /\ Leq(ExactAdd(overlay.shapes[i].y, overlay.shapes[i].height),
                         ExactAdd(metrics.drawH, ExactMul(Tolerance, metrics.drawH)))

====
